---- MODULE Spec2Model ----
(***************************************************************************)
(* A model of qqqa's sandboxed command execution: the command classifier   *)
(* and the path guard of perms.rs, and the supervisor of                   *)
(* tools/execute_command.rs.                                               *)
(*                                                                         *)
(* Text is modelled as a sequence of one-character strings, so that the    *)
(* scans of perms.rs are computed character by character as the code does. *)
(***************************************************************************)
EXTENDS Integers, Sequences, FiniteSets, TLC

VARIABLES
    custom,      \* perms.rs CUSTOM: the process-wide custom allowlist
    last_call,   \* history: the last call that wrote the custom allowlist
    unsafe_env,  \* the environment variable QQQA_ALLOW_UNSAFE_COMMANDS
    cmd,         \* the argument of the last ensure_safe_command call
    result,      \* what that call returned
    fs,          \* the filesystem: absolute path -> directory, file or symlink
    home,        \* dirs::home_dir()
    cwd,         \* std::env::current_dir()
    path_arg,    \* the argument of the last ensure_safe_path call
    path_result, \* what that call returned
    args,        \* run: Args{command, cwd}
    auto_yes,    \* run: the auto_yes parameter
    on_chunk,    \* run: whether the on_chunk parameter is Some(handler)
    platform,    \* run: the shell parameter, the build, the PTY switches, stdout
    pc,          \* run: where the call is
    disposition, \* run: what ensure_safe_command returned
    prompts,     \* the prompts issued so far, with their answers
    warned,      \* run: whether the warning of line 68 was printed
    attempts,    \* history: the launches spawn_child tried, in order
    orphans,     \* the children spawned and dropped without kill or wait
    child,       \* the spawned process: backend, status, exit code
    holders,     \* per stream, who holds the write end: child, descendant
    pipe,        \* per stream, the bytes written and not yet read
    written,     \* per stream, the number of bytes written so far
    readers,     \* per stream, the reader task: none, reading, done
    senders,     \* the owners of the live senders of the channel
    channel,     \* the unbounded mpsc channel of StreamMessage
    stdout_buf,  \* run: the stdout accumulation buffer
    stderr_buf,  \* run: the stderr accumulation buffer
    callbacks,   \* the invocations of on_chunk so far
    ks_calls,    \* the KillSwitch methods called so far
    ks_errors,   \* the KillSwitch calls whose error was discarded
    deadline,    \* the 120 s timer: unarmed, armed, passed
    running_at_deadline, \* whether the child was running when it passed
    timed_out,   \* whether timeout() returned Err(Elapsed)
    outcome,     \* what run returned
    caller,      \* qa: the allowlist retry loop around run
    write_result, \* what the last write_file call returned
    mutex,       \* who holds the lock of the custom allowlist
    writer,      \* the thread calling set_custom_allowlist
    reader       \* the thread calling ensure_safe_command

classifierVars == <<custom, last_call, unsafe_env, cmd, result>>
pathVars == <<fs, home, cwd, path_arg, path_result>>
processVars == <<child, holders, pipe, written, readers, senders, channel>>
inputVars == <<args, auto_yes, on_chunk, platform>>
bufVars == <<stdout_buf, stderr_buf, callbacks>>
ksVars == <<ks_calls, ks_errors, timed_out>>
callVars == <<inputVars, pc, disposition, prompts, warned, attempts, orphans, bufVars,
              ksVars, outcome>>
timerVars == <<deadline, running_at_deadline>>
runVars == <<processVars, callVars, timerVars>>
threadVars == <<mutex, writer, reader>>
toolVars == <<caller, write_result, threadVars>>
vars == <<classifierVars, pathVars, runVars, toolVars>>

\* What a step of one part of the program leaves alone.
notClassifierVars == <<pathVars, runVars, toolVars>>
notPathVars == <<classifierVars, runVars, toolVars>>
notRunVars == <<classifierVars, pathVars, toolVars>>

----------------------------------------------------------------------------
(* Text helpers: std's str::trim, str::to_lowercase, str::contains,        *)
(* str::starts_with on sequences of characters.                            *)

\* Characters that TLA+ strings cannot hold conveniently are named.
NL == "<newline>"
TAB == "<tab>"
BS == "<backslash>"
SQ == "<single-quote>"
DQ == "<double-quote>"
BT == "<backtick>"

IsWhitespace(c) == c \in {" ", NL, TAB}

RECURSIVE TrimStart(_)
TrimStart(s) ==
    IF s # <<>> /\ IsWhitespace(Head(s)) THEN TrimStart(Tail(s)) ELSE s

RECURSIVE TrimEnd(_)
TrimEnd(s) ==
    IF s # <<>> /\ IsWhitespace(s[Len(s)])
        THEN TrimEnd(SubSeq(s, 1, Len(s) - 1))
        ELSE s

Trim(s) == TrimEnd(TrimStart(s))

\* char::to_lowercase on the upper-case letters the commands of the model use.
LowerChar(c) ==
    CASE c = "R" -> "r"
      [] c = "M" -> "m"
      [] c = "S" -> "s"
      [] c = "F" -> "f"
      [] c = "D" -> "d"
      [] c = "U" -> "u"
      [] c = "O" -> "o"
      [] c = "A" -> "a"
      [] c = "L" -> "l"
      [] c = "E" -> "e"
      [] c = "Y" -> "y"
      [] c = "N" -> "n"
      [] c = "T" -> "t"
      [] OTHER -> c

ToLowercase(s) == [i \in 1..Len(s) |-> LowerChar(s[i])]

StartsWith(s, p) == Len(p) <= Len(s) /\ SubSeq(s, 1, Len(p)) = p

Contains(s, p) ==
    \E i \in 1..(Len(s) - Len(p) + 1) : SubSeq(s, i, i + Len(p) - 1) = p

----------------------------------------------------------------------------
(* perms.rs: the control-operator scan.                                    *)

OperatorChars == {"&", "|", ";", ">", "<"}

\* The scan with the double-quote test of the operator arm forgotten.
RECURSIVE control_operator_scan_no_double(_, _, _, _, _)
control_operator_scan_no_double(s, i, in_single, in_double, escape_next) ==
    IF i > Len(s) THEN 0
    ELSE LET c == s[i]
             go(sq, dq, esc) == control_operator_scan_no_double(s, i + 1, sq, dq, esc)
         IN  IF escape_next THEN go(in_single, in_double, FALSE)
             ELSE IF c = BS THEN go(in_single, in_double, ~in_single)
             ELSE IF c = SQ
                 THEN go(IF in_double THEN in_single ELSE ~in_single, in_double, FALSE)
             ELSE IF c = DQ
                 THEN go(in_single, IF in_single THEN in_double ELSE ~in_double, FALSE)
             ELSE IF c \in {NL, BT}
                 THEN IF ~in_single /\ ~in_double THEN i
                      ELSE go(in_single, in_double, FALSE)
             ELSE IF c = "$" /\ ~in_single
                 THEN IF i < Len(s) /\ s[i + 1] = "(" THEN i
                      ELSE go(in_single, in_double, FALSE)
             ELSE IF c \in OperatorChars /\ ~in_single THEN i
             ELSE go(in_single, in_double, FALSE)

\* The scan with a backslash that escapes inside single quotes too.
RECURSIVE control_operator_scan_escape_in_single(_, _, _, _, _)
control_operator_scan_escape_in_single(s, i, in_single, in_double, escape_next) ==
    IF i > Len(s) THEN 0
    ELSE LET c == s[i]
             go(sq, dq, esc) ==
                 control_operator_scan_escape_in_single(s, i + 1, sq, dq, esc)
         IN  IF escape_next THEN go(in_single, in_double, FALSE)
             ELSE IF c = BS THEN go(in_single, in_double, TRUE)
             ELSE IF c = SQ
                 THEN go(IF in_double THEN in_single ELSE ~in_single, in_double, FALSE)
             ELSE IF c = DQ
                 THEN go(in_single, IF in_single THEN in_double ELSE ~in_double, FALSE)
             ELSE IF c \in {NL, BT}
                 THEN IF ~in_single /\ ~in_double THEN i
                      ELSE go(in_single, in_double, FALSE)
             ELSE IF c = "$" /\ ~in_single
                 THEN IF i < Len(s) /\ s[i + 1] = "(" THEN i
                      ELSE go(in_single, in_double, FALSE)
             ELSE IF c \in OperatorChars /\ ~in_single /\ ~in_double THEN i
             ELSE go(in_single, in_double, FALSE)

\* The loop of contains_control_operators from character i on; the value is
\* the index of the character at which the code returns true, 0 when the
\* loop ends and the code returns false.
RECURSIVE control_operator_scan(_, _, _, _, _)
control_operator_scan(s, i, in_single, in_double, escape_next) ==
    IF i > Len(s) THEN 0
    ELSE LET c == s[i]
             go(sq, dq, esc) == control_operator_scan(s, i + 1, sq, dq, esc)
         IN  IF escape_next THEN go(in_single, in_double, FALSE)
             ELSE IF c = BS THEN go(in_single, in_double, ~in_single)
             ELSE IF c = SQ
                 THEN go(IF in_double THEN in_single ELSE ~in_single, in_double, FALSE)
             ELSE IF c = DQ
                 THEN go(in_single, IF in_single THEN in_double ELSE ~in_double, FALSE)
             ELSE IF c = NL
                 THEN IF ~in_single /\ ~in_double THEN i
                      ELSE go(in_single, in_double, FALSE)
             ELSE IF c = BT
                 THEN IF ~in_single /\ ~in_double THEN i
                      ELSE go(in_single, in_double, FALSE)
             ELSE IF c = "$" /\ ~in_single
                 THEN IF i < Len(s) /\ s[i + 1] = "(" THEN i
                      ELSE go(in_single, in_double, FALSE)
             ELSE IF c \in OperatorChars /\ ~in_single /\ ~in_double THEN i
             ELSE go(in_single, in_double, FALSE)

contains_control_operators(s) ==
    control_operator_scan(s, 1, FALSE, FALSE, FALSE) # 0

----------------------------------------------------------------------------
(* perms.rs: the segment splitter.                                         *)

SplitChars == {"|", "&", ";"}

\* The loop without the peek at the next character: the second character
\* of a doubled operator is a split point of its own.
RECURSIVE split_scan_without_peek(_, _, _, _, _, _, _)
split_scan_without_peek(s, i, start, in_single, in_double, escape_next, segments) ==
    IF i > Len(s)
        THEN IF start <= Len(s) + 1
                 THEN Append(segments, SubSeq(s, start, Len(s)))
                 ELSE segments
    ELSE LET c == s[i]
             go(sq, dq, esc) ==
                 split_scan_without_peek(s, i + 1, start, sq, dq, esc, segments)
             pushed == IF i >= start
                           THEN Append(segments, SubSeq(s, start, i - 1))
                           ELSE segments
         IN  IF escape_next THEN go(in_single, in_double, FALSE)
             ELSE IF c = BS THEN go(in_single, in_double, ~in_single)
             ELSE IF c = SQ
                 THEN go(IF in_double THEN in_single ELSE ~in_single, in_double, FALSE)
             ELSE IF c = DQ
                 THEN go(in_single, IF in_single THEN in_double ELSE ~in_double, FALSE)
             ELSE IF (c = NL \/ c \in SplitChars) /\ ~in_single /\ ~in_double
                 THEN split_scan_without_peek(s, i + 1, i + 1, in_single,
                                              in_double, FALSE, pushed)
             ELSE go(in_single, in_double, FALSE)

\* The loop of split_command_segments: i is the next character, start the
\* first character of the segment being collected (both 1-based).
RECURSIVE split_scan(_, _, _, _, _, _, _)
split_scan(s, i, start, in_single, in_double, escape_next, segments) ==
    IF i > Len(s)
        THEN IF start <= Len(s) + 1
                 THEN Append(segments, SubSeq(s, start, Len(s)))
                 ELSE segments
    ELSE LET c == s[i]
             go(sq, dq, esc) == split_scan(s, i + 1, start, sq, dq, esc, segments)
             pushed == IF i >= start
                           THEN Append(segments, SubSeq(s, start, i - 1))
                           ELSE segments
         IN  IF escape_next THEN go(in_single, in_double, FALSE)
             ELSE IF c = BS THEN go(in_single, in_double, ~in_single)
             ELSE IF c = SQ
                 THEN go(IF in_double THEN in_single ELSE ~in_single, in_double, FALSE)
             ELSE IF c = DQ
                 THEN go(in_single, IF in_single THEN in_double ELSE ~in_double, FALSE)
             ELSE IF c = NL /\ ~in_single /\ ~in_double
                 THEN split_scan(s, i + 1, i + 1, in_single, in_double, FALSE, pushed)
             ELSE IF c \in SplitChars /\ ~in_single /\ ~in_double
                 THEN LET doubled == i < Len(s) /\ s[i + 1] = c
                          op_end == IF doubled THEN i + 2 ELSE i + 1
                      IN  split_scan(s, op_end, op_end, in_single, in_double,
                                     FALSE, pushed)
             ELSE go(in_single, in_double, FALSE)

split_command_segments(s) ==
    split_scan(s, 1, 1, FALSE, FALSE, FALSE, <<>>)

\* The three flags both loops keep.
QuoteState(in_single, in_double, escape_next) ==
    [in_single |-> in_single, in_double |-> in_double, escape_next |-> escape_next]

\* Lines 158 to 216: the flags of contains_control_operators at each
\* character it gets to, the one it returns at included.
RECURSIVE scan_states(_, _, _, _, _)
scan_states(s, i, in_single, in_double, escape_next) ==
    IF i > Len(s) THEN <<>>
    ELSE LET c == s[i]
             here == <<QuoteState(in_single, in_double, escape_next)>>
             go(sq, dq, esc) == here \o scan_states(s, i + 1, sq, dq, esc)
         IN  IF escape_next THEN go(in_single, in_double, FALSE)
             ELSE IF c = BS THEN go(in_single, in_double, ~in_single)
             ELSE IF c = SQ
                 THEN go(IF in_double THEN in_single ELSE ~in_single, in_double, FALSE)
             ELSE IF c = DQ
                 THEN go(in_single, IF in_single THEN in_double ELSE ~in_double, FALSE)
             ELSE IF c = NL
                 THEN IF ~in_single /\ ~in_double THEN here
                      ELSE go(in_single, in_double, FALSE)
             ELSE IF c = BT
                 THEN IF ~in_single /\ ~in_double THEN here
                      ELSE go(in_single, in_double, FALSE)
             ELSE IF c = "$" /\ ~in_single
                 THEN IF i < Len(s) /\ s[i + 1] = "(" THEN here
                      ELSE go(in_single, in_double, FALSE)
             ELSE IF c \in OperatorChars /\ ~in_single /\ ~in_double THEN here
             ELSE go(in_single, in_double, FALSE)

\* The splitter with a backslash escaping inside single quotes too.
RECURSIVE split_states_escaping_in_single(_, _, _, _, _)
split_states_escaping_in_single(s, i, in_single, in_double, escape_next) ==
    IF i > Len(s) THEN <<>>
    ELSE LET c == s[i]
             here == <<QuoteState(in_single, in_double, escape_next)>>
             go(sq, dq, esc) ==
                 here \o split_states_escaping_in_single(s, i + 1, sq, dq, esc)
         IN  IF escape_next THEN go(in_single, in_double, FALSE)
             ELSE IF c = BS THEN go(in_single, in_double, TRUE)
             ELSE IF c = SQ
                 THEN go(IF in_double THEN in_single ELSE ~in_single, in_double, FALSE)
             ELSE IF c = DQ
                 THEN go(in_single, IF in_single THEN in_double ELSE ~in_double, FALSE)
             ELSE IF c \in SplitChars /\ ~in_single /\ ~in_double
                       /\ i < Len(s) /\ s[i + 1] = c
                 THEN here \o here
                        \o split_states_escaping_in_single(s, i + 2, in_single,
                                                            in_double, FALSE)
             ELSE go(in_single, in_double, FALSE)

\* Lines 222 to 270: the flags of split_command_segments at each
\* character. The second character of a doubled operator is taken with
\* chars.next() inside the arm of the first and changes no flag.
RECURSIVE split_states(_, _, _, _, _)
split_states(s, i, in_single, in_double, escape_next) ==
    IF i > Len(s) THEN <<>>
    ELSE LET c == s[i]
             here == <<QuoteState(in_single, in_double, escape_next)>>
             go(sq, dq, esc) == here \o split_states(s, i + 1, sq, dq, esc)
         IN  IF escape_next THEN go(in_single, in_double, FALSE)
             ELSE IF c = BS THEN go(in_single, in_double, ~in_single)
             ELSE IF c = SQ
                 THEN go(IF in_double THEN in_single ELSE ~in_single, in_double, FALSE)
             ELSE IF c = DQ
                 THEN go(in_single, IF in_single THEN in_double ELSE ~in_double, FALSE)
             ELSE IF c \in SplitChars /\ ~in_single /\ ~in_double
                       /\ i < Len(s) /\ s[i + 1] = c
                 THEN here \o here
                        \o split_states(s, i + 2, in_single, in_double, FALSE)
             ELSE go(in_single, in_double, FALSE)

----------------------------------------------------------------------------
(* The tokenizer ensure_safe_command calls, shell_words::split: quote      *)
(* removal and comments, no operators. The value is [ok, words]; ok is     *)
(* FALSE for the ParseError of an unterminated quote.                      *)

RECURSIVE shell_words_scan(_, _, _, _, _)
shell_words_scan(s, i, state, word, words) ==
    LET end == i > Len(s)
        c == IF end THEN "" ELSE s[i]
        go(st, w, ws) == shell_words_scan(s, i + 1, st, w, ws)
        done(ws) == [ok |-> TRUE, words |-> ws]
        failed == [ok |-> FALSE, words |-> <<>>]
    IN  CASE state = "Delimiter" ->
                 IF end THEN done(words)
                 ELSE IF c = SQ THEN go("SingleQuoted", word, words)
                 ELSE IF c = DQ THEN go("DoubleQuoted", word, words)
                 ELSE IF c = BS THEN go("Backslash", word, words)
                 ELSE IF IsWhitespace(c) THEN go("Delimiter", word, words)
                 ELSE IF c = "#" THEN go("Comment", word, words)
                 ELSE go("Unquoted", Append(word, c), words)
          [] state = "Backslash" ->
                 IF end THEN done(Append(words, Append(word, BS)))
                 ELSE IF c = NL THEN go("Delimiter", word, words)
                 ELSE go("Unquoted", Append(word, c), words)
          [] state = "Unquoted" ->
                 IF end THEN done(Append(words, word))
                 ELSE IF c = SQ THEN go("SingleQuoted", word, words)
                 ELSE IF c = DQ THEN go("DoubleQuoted", word, words)
                 ELSE IF c = BS THEN go("UnquotedBackslash", word, words)
                 ELSE IF IsWhitespace(c) THEN go("Delimiter", <<>>, Append(words, word))
                 ELSE go("Unquoted", Append(word, c), words)
          [] state = "UnquotedBackslash" ->
                 IF end THEN done(Append(words, Append(word, BS)))
                 ELSE IF c = NL THEN go("Unquoted", word, words)
                 ELSE go("Unquoted", Append(word, c), words)
          [] state = "SingleQuoted" ->
                 IF end THEN failed
                 ELSE IF c = SQ THEN go("Unquoted", word, words)
                 ELSE go("SingleQuoted", Append(word, c), words)
          [] state = "DoubleQuoted" ->
                 IF end THEN failed
                 ELSE IF c = DQ THEN go("Unquoted", word, words)
                 ELSE IF c = BS THEN go("DoubleQuotedBackslash", word, words)
                 ELSE go("DoubleQuoted", Append(word, c), words)
          [] state = "DoubleQuotedBackslash" ->
                 IF end THEN failed
                 ELSE IF c = NL THEN go("DoubleQuoted", word, words)
                 ELSE IF c \in {"$", BT, DQ, BS}
                     THEN go("DoubleQuoted", Append(word, c), words)
                 ELSE go("DoubleQuoted", Append(Append(word, BS), c), words)
          [] OTHER -> \* "Comment"
                 IF end THEN done(words)
                 ELSE IF c = NL THEN go("Delimiter", word, words)
                 ELSE go("Comment", word, words)

shell_words_split(s) == shell_words_scan(s, 1, "Delimiter", <<>>, <<>>)

----------------------------------------------------------------------------
(* perms.rs: the allowlists and ensure_safe_command.                       *)

SAFE_COMMANDS ==
    {<<"a", "w", "k">>,
     <<"c", "a", "t">>,
     <<"c", "u", "t">>,
     <<"d", "f">>,
     <<"d", "u">>,
     <<"e", "n", "v">>,
     <<"e", "c", "h", "o">>,
     <<"f", "i", "n", "d">>,
     <<"g", "r", "e", "p">>,
     <<"h", "e", "a", "d">>,
     <<"l", "s">>,
     <<"p", "w", "d">>,
     <<"r", "g">>,
     <<"s", "e", "d">>,
     <<"s", "o", "r", "t">>,
     <<"s", "t", "a", "t">>,
     <<"t", "a", "i", "l">>,
     <<"t", "r", "e", "e">>,
     <<"u", "n", "i", "q">>,
     <<"w", "c">>}

Allowed == [kind |-> "Allowed", err |-> "none", program |-> <<>>]
NeedsConfirmation == [kind |-> "NeedsConfirmation", err |-> "none", program |-> <<>>]
Err(e) == [kind |-> "Err", err |-> e, program |-> <<>>]
CommandNotAllowedError(p) == [kind |-> "Err", err |-> "CommandNotAllowed", program |-> p]
NoResult == [kind |-> "none", err |-> "none", program |-> <<>>]

IsOk(r) == r.kind \in {"Allowed", "NeedsConfirmation"}

\* The environment variable: unset, or set to a text.
EnvUnset == [set |-> FALSE, value |-> <<>>]
EnvSet(v) == [set |-> TRUE, value |-> v]

allow_unsafe_commands(env) ==
    IF env.set
        THEN /\ Trim(env.value) # <<>>
             /\ env.value # <<"0">>
             /\ ToLowercase(env.value) # <<"f", "a", "l", "s", "e">>
        ELSE FALSE

is_custom_allowed(program, allowlist) == program \in allowlist

\* The loop of set_custom_allowlist: insert commands[k], commands[k + 1], ..
RECURSIVE insert_all(_, _, _)
insert_all(set, commands, k) ==
    IF k > Len(commands) THEN set
    ELSE insert_all(set \cup {commands[k]}, commands, k + 1)

\* The calls that write the custom allowlist, as the history keeps them.
NoCall == [op |-> "none", commands |-> <<>>]
SetCall(commands) == [op |-> "set", commands |-> commands]
ClearCall == [op |-> "clear", commands |-> <<>>]

FindActions ==
    {<<"-", "d", "e", "l", "e", "t", "e">>,
     <<"-", "e", "x", "e", "c">>,
     <<"-", "e", "x", "e", "c", "d", "i", "r">>,
     <<"-", "o", "k">>,
     <<"-", "o", "k", "d", "i", "r">>}

\* "none" when the rules pass, else the error they return.
enforce_program_specific_rules(program, tokens) ==
    IF program = <<"f", "i", "n", "d">>
        THEN IF \E k \in 1..Len(tokens) : tokens[k] \in FindActions
                 THEN "FindDeleteExec" ELSE "none"
    ELSE IF program = <<"s", "e", "d">>
        THEN IF \E k \in 1..Len(tokens) : StartsWith(tokens[k], <<"-", "i">>)
                 THEN "SedInPlace" ELSE "none"
    ELSE "none"

\* The loop with the find and sed rules applied to every builtin program,
\* custom-allowed or not.
RECURSIVE check_segments_rules_despite_custom(_, _, _, _)
check_segments_rules_despite_custom(segments, k, saw_segment, allowlist) ==
    IF k > Len(segments)
        THEN [r |-> NoResult, saw |-> saw_segment]
    ELSE LET seg_trimmed == Trim(segments[k])
             parsed == shell_words_split(seg_trimmed)
             seg_tokens == parsed.words
             program == seg_tokens[1]
             builtin_allowed == program \in SAFE_COMMANDS
             custom_allowed == is_custom_allowed(program, allowlist)
             rules == enforce_program_specific_rules(program, seg_tokens)
             rest(saw) == check_segments_rules_despite_custom(segments, k + 1, saw, allowlist)
         IN  IF seg_trimmed = <<>> THEN rest(saw_segment)
             ELSE IF ~parsed.ok
                 THEN [r |-> Err("Parse"), saw |-> TRUE]
             ELSE IF seg_tokens = <<>> THEN rest(TRUE)
             ELSE IF ~builtin_allowed /\ ~custom_allowed
                 THEN [r |-> CommandNotAllowedError(program), saw |-> TRUE]
             ELSE IF builtin_allowed /\ rules # "none"
                 THEN [r |-> Err(rules), saw |-> TRUE]
             ELSE rest(TRUE)

\* The loop of ensure_safe_command over the segments, from segment k on.
\* The value is "none" and saw_segment when the loop ends, else the error.
RECURSIVE check_segments(_, _, _, _)
check_segments(segments, k, saw_segment, allowlist) ==
    IF k > Len(segments)
        THEN [r |-> NoResult, saw |-> saw_segment]
    ELSE LET seg_trimmed == Trim(segments[k])
             parsed == shell_words_split(seg_trimmed)
             seg_tokens == parsed.words
             program == seg_tokens[1]
             builtin_allowed == program \in SAFE_COMMANDS
             custom_allowed == is_custom_allowed(program, allowlist)
             rules == enforce_program_specific_rules(program, seg_tokens)
         IN  IF seg_trimmed = <<>>
                 THEN check_segments(segments, k + 1, saw_segment, allowlist)
             ELSE IF ~parsed.ok
                 THEN [r |-> Err("Parse"), saw |-> TRUE]
             ELSE IF seg_tokens = <<>>
                 THEN check_segments(segments, k + 1, TRUE, allowlist)
             ELSE IF ~builtin_allowed /\ ~custom_allowed
                 THEN [r |-> CommandNotAllowedError(program), saw |-> TRUE]
             ELSE IF builtin_allowed /\ ~custom_allowed /\ rules # "none"
                 THEN [r |-> Err(rules), saw |-> TRUE]
             ELSE check_segments(segments, k + 1, TRUE, allowlist)

\* The global destructive-pattern blocklist, on the lower-cased command.
destructive_pattern(lower) ==
    IF Contains(lower, <<"r", "m", " ", "-", "r", "f", " ", "/">>) \/ Contains(lower, <<"r", "m", " ", "-", "r", "f", " ", "-", "-", " ", "/">>)
        THEN "RmRf"
    ELSE IF Contains(lower, <<"s", "u", "d", "o", " ">>) THEN "Sudo"
    ELSE IF Contains(lower, <<"m", "k", "f", "s">>) \/ Contains(lower, <<"d", "d", " ", "i", "f", "=">>)
        THEN "DiskWipe"
    ELSE "none"

\* ensure_safe_command with the blocklist searched in the command as
\* written, not in its lower-cased form.
ensure_safe_command_case_sensitive(c, allowlist, env) ==
    IF allow_unsafe_commands(env) THEN Allowed
    ELSE LET trimmed == Trim(c)
             needs_confirmation == contains_control_operators(trimmed)
             segments == split_command_segments(trimmed)
             checked == check_segments(segments, 1, FALSE, allowlist)
             blocked == destructive_pattern(c)
         IN  IF trimmed = <<>> THEN Err("Empty")
             ELSE IF checked.r # NoResult THEN checked.r
             ELSE IF ~checked.saw THEN Err("Empty")
             ELSE IF blocked # "none" THEN Err(blocked)
             ELSE IF needs_confirmation THEN NeedsConfirmation
             ELSE Allowed

\* ensure_safe_command with the bypass consulted after the check for an
\* empty command.
ensure_safe_command_bypass_after_empty(c, allowlist, env) ==
    LET trimmed == Trim(c)
        needs_confirmation == contains_control_operators(trimmed)
        segments == split_command_segments(trimmed)
        checked == check_segments(segments, 1, FALSE, allowlist)
        blocked == destructive_pattern(ToLowercase(c))
    IN  IF trimmed = <<>> THEN Err("Empty")
        ELSE IF allow_unsafe_commands(env) THEN Allowed
        ELSE IF checked.r # NoResult THEN checked.r
        ELSE IF ~checked.saw THEN Err("Empty")
        ELSE IF blocked # "none" THEN Err(blocked)
        ELSE IF needs_confirmation THEN NeedsConfirmation
        ELSE Allowed

\* ensure_safe_command without the saw_segment check of line 123.
ensure_safe_command_without_saw_segment(c, allowlist, env) ==
    IF allow_unsafe_commands(env) THEN Allowed
    ELSE LET trimmed == Trim(c)
             needs_confirmation == contains_control_operators(trimmed)
             segments == split_command_segments(trimmed)
             checked == check_segments(segments, 1, FALSE, allowlist)
             blocked == destructive_pattern(ToLowercase(c))
         IN  IF trimmed = <<>> THEN Err("Empty")
             ELSE IF checked.r # NoResult THEN checked.r
             ELSE IF blocked # "none" THEN Err(blocked)
             ELSE IF needs_confirmation THEN NeedsConfirmation
             ELSE Allowed

ensure_safe_command(c, allowlist, env) ==
    IF allow_unsafe_commands(env) THEN Allowed
    ELSE LET trimmed == Trim(c)
             needs_confirmation == contains_control_operators(trimmed)
             segments == split_command_segments(trimmed)
             checked == check_segments(segments, 1, FALSE, allowlist)
             blocked == destructive_pattern(ToLowercase(c))
         IN  IF trimmed = <<>> THEN Err("Empty")
             ELSE IF checked.r # NoResult THEN checked.r
             ELSE IF ~checked.saw THEN Err("Empty")
             ELSE IF blocked # "none" THEN Err(blocked)
             ELSE IF needs_confirmation THEN NeedsConfirmation
             ELSE Allowed

----------------------------------------------------------------------------
(* The commands the classifier is called with: up to MaxSegs phrases       *)
(* joined by separators, of at most MaxCmdLen characters.                  *)

MaxSegs == 2
MaxCmdLen == 15

Phrases ==
    {
     \* ls
     <<"l", "s">>,
     \* (empty)
     <<>>,
     \* echo <dq>a;b<dq>
     <<"e", "c", "h", "o", " ", DQ, "a", ";", "b", DQ>>,
     \* echo <sq>a|b<sq>
     <<"e", "c", "h", "o", " ", SQ, "a", "|", "b", SQ>>,
     \* grep a<bs>|b f
     <<"g", "r", "e", "p", " ", "a", BS, "|", "b", " ", "f">>,
     \* echo <dq><a><dq>
     <<"e", "c", "h", "o", " ", DQ, "<", "a", ">", DQ>>,
     \* echo <bs>;<bs>>
     <<"e", "c", "h", "o", " ", BS, ";", BS, ">">>,
     \* echo a >f
     <<"e", "c", "h", "o", " ", "a", " ", ">", "f">>,
     \* wc <f
     <<"w", "c", " ", "<", "f">>,
     \* echo $(ls)
     <<"e", "c", "h", "o", " ", "$", "(", "l", "s", ")">>,
     \* echo <backtick>ls<backtick>
     <<"e", "c", "h", "o", " ", BT, "l", "s", BT>>,
     \* echo <dq><backtick>ls<backtick><dq>
     <<"e", "c", "h", "o", " ", DQ, BT, "l", "s", BT, DQ>>,
     \* echo <dq>$(ls)<dq>
     <<"e", "c", "h", "o", " ", DQ, "$", "(", "l", "s", ")", DQ>>,
     \* echo <sq>$(ls)<sq>
     <<"e", "c", "h", "o", " ", SQ, "$", "(", "l", "s", ")", SQ>>,
     \* echo <bs><backtick>
     <<"e", "c", "h", "o", " ", BS, BT>>,
     \* rm -rf /
     <<"r", "m", " ", "-", "r", "f", " ", "/">>,
     \* rm -rf -- /
     <<"r", "m", " ", "-", "r", "f", " ", "-", "-", " ", "/">>,
     \* rm -rf <dq>/<dq>
     <<"r", "m", " ", "-", "r", "f", " ", DQ, "/", DQ>>,
     \* rm -rf <sq>/<sq>
     <<"r", "m", " ", "-", "r", "f", " ", SQ, "/", SQ>>,
     \* rm -rf <bs>/
     <<"r", "m", " ", "-", "r", "f", " ", BS, "/">>,
     \* sudo ls
     <<"s", "u", "d", "o", " ", "l", "s">>,
     \* echo Sudo x
     <<"e", "c", "h", "o", " ", "S", "u", "d", "o", " ", "x">>,
     \* dd if=x
     <<"d", "d", " ", "i", "f", "=", "x">>,
     \* echo mkfs
     <<"e", "c", "h", "o", " ", "m", "k", "f", "s">>,
     \* rm x
     <<"r", "m", " ", "x">>,
     \* curl x
     <<"c", "u", "r", "l", " ", "x">>,
     \* find . -delete
     <<"f", "i", "n", "d", " ", ".", " ", "-", "d", "e", "l", "e", "t", "e">>,
     \* sed -i x
     <<"s", "e", "d", " ", "-", "i", " ", "x">>,
     \* sed -i <sq>s|a|<sq>
     <<"s", "e", "d", " ", "-", "i", " ", SQ, "s", "|", "a", "|", SQ>>,
     \* echo <sq>a
     <<"e", "c", "h", "o", " ", SQ, "a">>,
     \* # x
     <<"#", " ", "x">>,
     \* ls #<dq>
     <<"l", "s", " ", "#", DQ>>,
     \* rm x #<dq>
     <<"r", "m", " ", "x", " ", "#", DQ>>,
     \* echo <sq>a<bs><sq>
     <<"e", "c", "h", "o", " ", SQ, "a", BS, SQ>>,
     \* echo <dq>a<bs><dq>;b<dq>
     <<"e", "c", "h", "o", " ", DQ, "a", BS, DQ, ";", "b", DQ>>
    }

Separators == {<<";">>, <<"&", "&">>, <<"|">>, <<NL>>}

\* The phrases ps joined by the separators seps, from phrase k on.
RECURSIVE Joined(_, _, _)
Joined(ps, seps, k) ==
    IF k >= Len(ps) THEN ps[k]
    ELSE ps[k] \o seps[k] \o Joined(ps, seps, k + 1)

\* c is one of the commands: n phrases joined by n - 1 separators.
IsCommand(c) ==
    \E n \in 1..MaxSegs :
        \E ps \in [1..n -> Phrases] :
            \E seps \in [1..(n - 1) -> Separators] :
                /\ c = Joined(ps, seps, 1)
                /\ Len(c) <= MaxCmdLen

rm == <<"r", "m">>
find == <<"f", "i", "n", "d">>
sed == <<"s", "e", "d">>

CustomCandidates == {rm, find, sed}

\* The arguments set_custom_allowlist is called with.
AllowlistArgs == {<<>>, <<rm>>, <<find>>, <<sed>>, <<rm, find, rm>>}

EnvValues ==
    {EnvUnset, EnvSet(<<"1">>), EnvSet(<<"0">>), EnvSet(<<"F", "a", "l", "s", "e">>)}

----------------------------------------------------------------------------
(* The path guard of perms.rs. An absolute path is the sequence of its     *)
(* names below the root directory; an argument of ensure_safe_path is a    *)
(* record [abs, comps] whose components may also be "." and "..".          *)
(*                                                                         *)
(* The filesystem fs maps the absolute paths that exist to a node          *)
(* [kind, target] with kind "dir", "file" or "link"; the root directory    *)
(* always exists and is not in its domain. Symlink targets are absolute.   *)

PathOf(abs, comps) == [abs |-> abs, comps |-> comps]

Parent(path) == SubSeq(path, 1, Len(path) - 1)

\* The loop of normalize_path: "." is skipped, ".." pops (PathBuf::pop does
\* nothing at the root), a name is pushed.
RECURSIVE normalize_components(_, _)
normalize_components(comps, normalized) ==
    IF comps = <<>> THEN normalized
    ELSE LET component == Head(comps)
         IN  normalize_components(Tail(comps),
                 IF component = "." THEN normalized
                 ELSE IF component = ".."
                      THEN (IF normalized = <<>> THEN <<>> ELSE Parent(normalized))
                      ELSE Append(normalized, component))

normalize_path_keeps_parent_dir(comps) ==
    SelectSeq(comps, LAMBDA c : c # ".")

normalize_path(comps) == normalize_components(comps, <<>>)

resolve_path(p, current_dir) ==
    IF p.abs THEN normalize_path(p.comps)
    ELSE normalize_path(current_dir \o p.comps)

\* The number of symlinks one lookup follows before it fails (ELOOP).
MaxSymlinkHops == 3

\* Path lookup as the kernel does it: from the resolved directory base,
\* follow the names of rest, replacing a symlink by its target.
RECURSIVE lookup(_, _, _, _)
lookup(f, base, rest, hops) ==
    IF rest = <<>> THEN [ok |-> TRUE, path |-> base]
    ELSE LET q == Append(base, Head(rest))
         IN  IF q \notin DOMAIN f THEN [ok |-> FALSE, path |-> q]
             ELSE IF f[q].kind = "link"
                  THEN IF hops >= MaxSymlinkHops THEN [ok |-> FALSE, path |-> q]
                       ELSE lookup(f, <<>>, f[q].target \o Tail(rest), hops + 1)
             ELSE IF f[q].kind = "file" /\ Tail(rest) # <<>>
                  THEN [ok |-> FALSE, path |-> q]
             ELSE lookup(f, q, Tail(rest), hops)

\* fs::canonicalize: Ok(path) with every symlink resolved, or Err.
canonicalize(f, path) == lookup(f, <<>>, path, 0)

\* Path::exists: true iff the metadata of the path can be read, following
\* symlinks; a symlink whose target is missing does not exist.
exists(f, path) == canonicalize(f, path).ok

is_dir(f, path) ==
    LET c == canonicalize(f, path)
    IN  c.ok /\ (c.path = <<>> \/ f[c.path].kind = "dir")

\* The characters of the names of the model.
NameText(name) ==
    CASE name = "etc" -> <<"e", "t", "c">>
      [] name = "et" -> <<"e", "t">>
      [] name = "ws" -> <<"w", "s">>
      [] name = "lh" -> <<"l", "h">>
      [] name = ".." -> <<".", ".">>
      [] OTHER -> <<name>>

\* The path as the text /name/name.
RECURSIVE PathText(_)
PathText(path) ==
    IF path = <<>> THEN <<>>
    ELSE <<"/">> \o NameText(Head(path)) \o PathText(Tail(path))

\* starts_with on the text of the paths, as str::starts_with does it.
path_starts_with_as_text(path, root) == StartsWith(PathText(path), PathText(root))

\* Path::starts_with compares whole components.
path_starts_with(path, root) ==
    Len(root) <= Len(path) /\ SubSeq(path, 1, Len(root)) = root

NoHome == [some |-> FALSE, path |-> <<>>]
SomeHome(path) == [some |-> TRUE, path |-> path]

canonical_root(f, path) ==
    IF canonicalize(f, path).ok THEN {canonicalize(f, path).path} ELSE {}

\* The roots with the working directory of the start of the process kept
\* among them.
gather_allowed_roots_keeping_first_cwd(f, home_dir, current_dir) ==
    (IF home_dir.some
     THEN {home_dir.path} \cup canonical_root(f, home_dir.path)
     ELSE {})
    \cup {current_dir} \cup canonical_root(f, current_dir)
    \cup {<<"h", "ws">>}

\* Lines 333 to 351: home and cwd, as given and canonicalized, read from
\* the environment at every call.
gather_allowed_roots(f, home_dir, current_dir) ==
    (IF home_dir.some
     THEN {home_dir.path} \cup canonical_root(f, home_dir.path)
     ELSE {})
    \cup {current_dir} \cup canonical_root(f, current_dir)

is_within_allowed(path, allowed) ==
    \E root \in allowed : path_starts_with(path, root)

RECURSIVE deepest_existing_ancestor(_, _)
deepest_existing_ancestor(f, path) ==
    IF path = <<>> \/ exists(f, path) THEN path
    ELSE deepest_existing_ancestor(f, Parent(path))

PathOk == "Ok"
PathRefused == "Refusing to access path outside home or cwd"
PathIoError == "io error"
NoPathResult == "none"

ensure_safe_path(f, home_dir, current_dir, p) ==
    LET resolved == resolve_path(p, current_dir)
        allowed_roots == gather_allowed_roots(f, home_dir, current_dir)
    IN  IF ~is_within_allowed(resolved, allowed_roots) THEN PathRefused
        ELSE LET existing == deepest_existing_ancestor(f, resolved)
                 canonical == canonicalize(f, existing)
             IN  IF ~canonical.ok THEN PathIoError
                 ELSE IF ~is_within_allowed(canonical.path, allowed_roots)
                      THEN PathRefused
                 ELSE PathOk

\* The filesystem of the tests: a home directory with a workspace below
\* it, /etc outside, and (as on systems whose temporary directory is a
\* symlink) a second name lh for the home directory.
Dir == [kind |-> "dir", target |-> <<>>]
File == [kind |-> "file", target |-> <<>>]
Link(target) == [kind |-> "link", target |-> target]

BaseFs ==
    (<<"h">> :> Dir) @@ (<<"h", "ws">> :> Dir) @@ (<<"etc">> :> Dir)
    @@ (<<"etc", "f">> :> File) @@ (<<"lh">> :> Link(<<"h">>))

workspace == <<"h", "ws">>

PathIdle ==
    /\ fs = BaseFs
    /\ home = SomeHome(<<"h">>)
    /\ cwd = workspace
    /\ path_arg = PathOf(FALSE, <<>>)
    /\ path_result = NoPathResult

----------------------------------------------------------------------------
(* tools/execute_command.rs: the values of run.                            *)

\* Args.cwd is an Option; run uses "." when it is None.
NoCwd == [some |-> FALSE, path |-> PathOf(FALSE, <<>>)]
SomeCwd(path) == [some |-> TRUE, path |-> path]

cwd_or_default(a) == IF a.cwd.some THEN a.cwd.path ELSE PathOf(FALSE, <<".">>)

\* fs::canonicalize of a path that may be relative to the working directory
\* of the process.
canonicalize_from(f, current_dir, p) ==
    LET joined == IF p.abs THEN p.comps ELSE current_dir \o p.comps
    IN  canonicalize(f, SelectSeq(joined, LAMBDA c : c # "."))

\* Lines 62 to 67 of run: the working directory, canonicalized when that
\* is possible and as given otherwise, does not start with the home.
cwd_outside_home(f, home_dir, current_dir, a) ==
    LET cwd_path == cwd_or_default(a)
        canonical == canonicalize_from(f, current_dir, cwd_path)
        resolved == IF canonical.ok THEN PathOf(TRUE, canonical.path) ELSE cwd_path
    IN  /\ home_dir.some
        /\ ~(resolved.abs /\ path_starts_with(resolved.comps, home_dir.path))

\* is_yes that looks at the first letter only.
is_yes_by_first_letter(input) ==
    StartsWith(ToLowercase(Trim(input)), <<"y">>)

is_yes(input) ==
    ToLowercase(Trim(input)) \in {<<"y">>, <<"y", "e", "s">>}

\* prompt_yes_no: the line is read from stdin when stdin is a terminal,
\* from the controlling terminal when that can be opened, and the call
\* fails otherwise. The value is "yes", "no" or "err".
prompt_yes_no(terminal, line) ==
    IF terminal = "stdin" THEN (IF is_yes(line) THEN "yes" ELSE "no")
    ELSE IF terminal = "tty" THEN (IF is_yes(line) THEN "yes" ELSE "no")
    ELSE "err"

ProceedPrompt == "Proceed anyway? [y/N]: "
ExecutePrompt == "Execute? [y/N]: "

Asked(prompt, answer) == [prompt |-> prompt, answer |-> answer]

execute_prompt_required_unless_auto(requires_manual_confirmation, auto) ==
    ~auto

\* The condition of line 81.
execute_prompt_required(requires_manual_confirmation, auto) ==
    requires_manual_confirmation \/ ~auto

\* The results of run.
NoOutcome == [kind |-> "none"]
RunErr(error) == [kind |-> "Err", error |-> error]
RunBlocked(err) == [kind |-> "Err", error |-> "blocked", cause |-> err]
RunOk(text) == [kind |-> "Ok", summary |-> text]

\* The character of a byte below 128.
Char(b) ==
    CASE b = 10 -> NL
      [] b = 97 -> "a"
      [] OTHER -> "<" \o ToString(b) \o ">"

ReplacementChar == "<U+FFFD>"
EAcute == "<U+00E9>"

\* String::from_utf8_lossy on the bytes the model writes: a byte below 128
\* is one character, the bytes 195 169 together are one character, and
\* every other byte is replaced by U+FFFD.
RECURSIVE from_utf8_lossy(_)
from_utf8_lossy(bytes) ==
    IF bytes = <<>> THEN <<>>
    ELSE IF bytes[1] < 128
        THEN <<Char(bytes[1])>> \o from_utf8_lossy(Tail(bytes))
    ELSE IF bytes[1] = 195 /\ Len(bytes) >= 2 /\ bytes[2] = 169
        THEN <<EAcute>> \o from_utf8_lossy(SubSeq(bytes, 3, Len(bytes)))
    ELSE <<ReplacementChar>> \o from_utf8_lossy(Tail(bytes))

DigitChars == <<"0", "1", "2", "3", "4", "5", "6", "7", "8", "9">>

RECURSIVE Digits(_)
Digits(n) ==
    IF n < 10 THEN <<DigitChars[n + 1]>>
    ELSE Digits(n \div 10) \o <<DigitChars[(n % 10) + 1]>>

\* format!("{}", code) of an i32.
Display(code) == IF code < 0 THEN <<"-">> \o Digits(0 - code) ELSE Digits(code)

ends_with_newline(text) == text # <<>> /\ text[Len(text)] = NL

ExitCodeLabel == <<"E", "x", "i", "t", " ", "c", "o", "d", "e", ":", " ">>
StdoutHeader == <<"-", "-", "-", " ", "s", "t", "d", "o", "u", "t", " ", "-", "-", "-", NL>>
StderrHeader == <<"-", "-", "-", " ", "s", "t", "d", "e", "r", "r", " ", "-", "-", "-", NL>>

\* The summary with a newline pushed after each section whatever its end.
summary_always_pushing_newline(code, stdout, stderr) ==
    ExitCodeLabel \o Display(code) \o <<NL>>
        \o StdoutHeader \o stdout \o <<NL>>
        \o StderrHeader \o stderr \o <<NL>>

\* Lines 145 to 157.
summary(code, stdout, stderr) ==
    ExitCodeLabel \o Display(code) \o <<NL>>
        \o StdoutHeader \o stdout
        \o (IF ends_with_newline(stdout) THEN <<>> ELSE <<NL>>)
        \o StderrHeader \o stderr
        \o (IF ends_with_newline(stderr) THEN <<>> ELSE <<NL>>)

CanceledCwd == RunErr("Execution canceled by user (cwd outside home)")
Canceled == RunErr("Execution canceled by user")
PromptFailed == RunErr("Failed to open /dev/tty for confirmation; re-run with --yes")
SpawnFailed == RunErr("Failed to spawn command via sh")
StreamFailed == RunErr("stream read error")
TimedOut == RunErr("Command timed out after 120s")
WaitFailed == RunErr("wait failed")

\* The process and its streams.
Streams == {"Stdout", "Stderr"}

\* The streams a backend has a reader task for: setup_stream_tasks spawns
\* two pipe readers for a Plain child and one PTY reader, which sends
\* Stdout messages, for a Pty child.
streams_of(backend) ==
    CASE backend = "Plain" -> {"Stdout", "Stderr"}
      [] backend = "Pty" -> {"Stdout"}
      [] OTHER -> {}

NoChild == [backend |-> "none", status |-> "none", code |-> 0]
Running(backend) == [backend |-> backend, status |-> "running", code |-> 0]

Spawned == child.backend # "none"

\* std::process::ExitStatus::code().unwrap_or(-1): a process that a signal
\* ended has no code.
exit_code(c) == IF c.status = "killed" THEN 0 - 1 ELSE c.code

\* The senders of the channel that have not been dropped.
SendersAlive == senders

\* The state of a call that has not classified its command yet.
RunFresh ==
    /\ disposition = NoResult
    /\ prompts = <<>>
    /\ warned = FALSE
    /\ attempts = <<>>
    /\ orphans = 0
    /\ child = NoChild
    /\ holders = [s \in Streams |-> {}]
    /\ pipe = [s \in Streams |-> <<>>]
    /\ written = [s \in Streams |-> 0]
    /\ readers = [s \in Streams |-> "none"]
    /\ senders = {}
    /\ channel = <<>>
    /\ stdout_buf = <<>>
    /\ stderr_buf = <<>>
    /\ callbacks = <<>>
    /\ ks_calls = <<>>
    /\ ks_errors = {}
    /\ deadline = "unarmed"
    /\ running_at_deadline = FALSE
    /\ timed_out = FALSE
    /\ outcome = NoOutcome

\* No thread is inside set_custom_allowlist or ensure_safe_command.
ThreadsIdle ==
    /\ mutex = "none"
    /\ writer = [pc |-> "idle", commands |-> <<>>, k |-> 1, old |-> {}, new |-> {},
                 calls |-> 0]
    /\ reader = [pc |-> "idle", k |-> 1, saw |-> FALSE, seen |-> {}, lookups |-> <<>>]

\* The retry loop of qa when no tool call is in progress.
CallerIdle ==
    caller = [pc |-> "idle", original |-> [command |-> <<>>, cwd |-> NoCwd],
              cfg |-> <<>>, calls |-> 0, offers |-> <<>>, saved |-> <<>>,
              result |-> NoOutcome]

ShellKinds == {"Posix", "CmdExe", "PowerShell"}
\* The steps of a launch that can fail: the three of the PTY setup and the
\* spawn of each program.
Launches == {"openpty", "spawn_command", "try_clone_reader", "sh", "cmd.exe",
             "pwsh", "powershell"}

\* Which steps succeed: every combination, and the combinations in which
\* the clone of the PTY reader does not fail. The specifications that run
\* the child take the latter; SpecSpawn takes them all.
LaunchOutcomes == [Launches -> BOOLEAN]
ReaderCloned == {works \in LaunchOutcomes : works["try_clone_reader"]}

\* A unix build asked for a POSIX shell, no PTY switch set, stdout on a
\* terminal or not.
PosixPlatform(stdout_is_tty) ==
    [shell |-> "Posix", unix |-> TRUE, force_pty |-> EnvUnset,
     disable_pty |-> EnvUnset, stdout_tty |-> stdout_is_tty]

RunIdle ==
    /\ args = [command |-> <<"l", "s">>, cwd |-> NoCwd]
    /\ auto_yes = FALSE
    /\ on_chunk = FALSE
    /\ platform = PosixPlatform(FALSE)
    /\ pc = "idle"
    /\ RunFresh

----------------------------------------------------------------------------
(* The classifier as a state machine: the allowlist and the environment    *)
(* are set up, then ensure_safe_command is called on cmd.                  *)

Init ==
    /\ CallerIdle
    /\ ThreadsIdle
    /\ write_result = NoPathResult
    /\ custom = {}
    /\ last_call = NoCall
    /\ unsafe_env = EnvUnset
    /\ IsCommand(cmd)
    /\ result = NoResult
    /\ PathIdle
    /\ RunIdle

\* set_custom_allowlist with the inserts made into the set as it is, the
\* clear left out.
set_custom_allowlist_merging(commands) ==
    /\ custom' = insert_all(custom, commands, 1)
    /\ last_call' = SetCall(commands)
    /\ result' = NoResult
    /\ UNCHANGED <<unsafe_env, cmd, notClassifierVars>>

set_custom_allowlist(commands) ==
    /\ custom' = insert_all({}, commands, 1)
    /\ last_call' = SetCall(commands)
    /\ result' = NoResult
    /\ UNCHANGED <<unsafe_env, cmd, notClassifierVars>>

clear_custom_allowlist ==
    /\ custom' = {}
    /\ last_call' = ClearCall
    /\ result' = NoResult
    /\ UNCHANGED <<unsafe_env, cmd, notClassifierVars>>

SetUnsafeEnv(v) ==
    /\ unsafe_env' = v
    /\ result' = NoResult
    /\ UNCHANGED <<custom, last_call, cmd, notClassifierVars>>

Classify ==
    /\ result = NoResult
    /\ result' = ensure_safe_command(cmd, custom, unsafe_env)
    /\ UNCHANGED <<custom, last_call, unsafe_env, cmd, notClassifierVars>>

Next ==
    \/ \E commands \in AllowlistArgs : set_custom_allowlist(commands)
    \/ clear_custom_allowlist
    \/ \E v \in EnvValues : SetUnsafeEnv(v)
    \/ Classify

Spec == Init /\ [][Next]_vars

----------------------------------------------------------------------------
(* The classifier on commands of two operands joined by one operator,      *)
(* single or doubled, with or without a space on each side of it.          *)

Operators == {"&", "|", ";"}

Operands ==
    {
     \* ls
     <<"l", "s">>,
     \* (empty)
     <<>>,
     \* rm x
     <<"r", "m", " ", "x">>,
     \* curl x
     <<"c", "u", "r", "l", " ", "x">>,
     \* rm -rf /
     <<"r", "m", " ", "-", "r", "f", " ", "/">>,
     \* echo <dq>a;b<dq>
     <<"e", "c", "h", "o", " ", DQ, "a", ";", "b", DQ>>,
     \* echo <sq>&<sq>
     <<"e", "c", "h", "o", " ", SQ, "&", SQ>>,
     \* echo <bs>
     <<"e", "c", "h", "o", " ", BS>>,
     \* echo <sq>a
     <<"e", "c", "h", "o", " ", SQ, "a">>
    }

Spacings == {<<>>, <<" ">>}

\* A op B with the operator written once (n = 1) or twice (n = 2).
Operation(A, op, n, B, sp) ==
    A \o sp \o [i \in 1..n |-> op] \o sp \o B

OperatorCommands ==
    {Operation(A, op, n, B, sp) :
        A \in Operands, op \in Operators, n \in 1..2, B \in Operands, sp \in Spacings}

InitOperators ==
    /\ CallerIdle
    /\ ThreadsIdle
    /\ write_result = NoPathResult
    /\ custom = {}
    /\ last_call = NoCall
    /\ unsafe_env = EnvUnset
    /\ cmd \in OperatorCommands
    /\ result = NoResult
    /\ PathIdle
    /\ RunIdle

SpecOperators == InitOperators /\ [][Next]_vars

----------------------------------------------------------------------------
(* The path guard as a state machine: symlinks are created, HOME and the   *)
(* working directory are changed, then ensure_safe_path is called on       *)
(* path_arg.                                                               *)

MaxPathLen == 3

PathComponents == {"..", ".", "h", "ws", "etc", "f", "l"}

ComponentSeqs(n) == UNION {[1..k -> PathComponents] : k \in 0..n}

LinkSites == {<<"h", "ws", "l">>, <<"etc", "l">>}
LinkTargets == {<<"etc">>, <<"etc", "l">>, <<"h", "ws">>}
HomeValues == {SomeHome(<<"h">>), SomeHome(<<"lh">>), SomeHome(<<"et">>), NoHome}
DirCandidates == {workspace, <<"lh", "ws">>, <<"etc">>}

ClassifierIdle ==
    /\ custom = {}
    /\ last_call = NoCall
    /\ unsafe_env = EnvUnset
    /\ cmd = <<"l", "s">>
    /\ result = NoResult

InitPath ==
    /\ CallerIdle
    /\ ThreadsIdle
    /\ write_result = NoPathResult
    /\ ClassifierIdle
    /\ fs = BaseFs
    /\ home = SomeHome(<<"h">>)
    /\ cwd = workspace
    /\ path_arg \in [abs : BOOLEAN, comps : ComponentSeqs(MaxPathLen)]
    /\ path_result = NoPathResult
    /\ RunIdle

\* std::os::unix::fs::symlink(target, site): the site must not exist and
\* its directory must.
symlink(target, site) ==
    /\ site \notin DOMAIN fs
    /\ is_dir(fs, Parent(site))
    /\ fs' = (site :> Link(target)) @@ fs
    /\ path_result' = NoPathResult
    /\ UNCHANGED <<home, cwd, path_arg, notPathVars>>

\* std::env::set_var("HOME", ..) or remove_var before the call.
SetHome(h) ==
    /\ home' = h
    /\ path_result' = NoPathResult
    /\ UNCHANGED <<fs, cwd, path_arg, notPathVars>>

\* std::env::set_current_dir(dir): the kernel keeps the physical path of
\* the directory, which is what current_dir() returns afterwards.
set_current_dir(dir) ==
    /\ is_dir(fs, dir)
    /\ cwd' = canonicalize(fs, dir).path
    /\ path_result' = NoPathResult
    /\ UNCHANGED <<fs, home, path_arg, notPathVars>>

CheckPath ==
    /\ path_result = NoPathResult
    /\ path_result' = ensure_safe_path(fs, home, cwd, path_arg)
    /\ UNCHANGED <<fs, home, cwd, path_arg, notPathVars>>

NextPath ==
    \/ \E target \in LinkTargets, site \in LinkSites : symlink(target, site)
    \/ \E h \in HomeValues : SetHome(h)
    \/ \E dir \in DirCandidates : set_current_dir(dir)
    \/ CheckPath

SpecPath == InitPath /\ [][NextPath]_vars

----------------------------------------------------------------------------
(* What the claims call quoted, escaped and unquoted: the quoting of a     *)
(* POSIX shell, written independently of the scans of perms.rs. Every      *)
(* character gets a tag:                                                   *)
(*   "plain"     outside quotes, not escaped, not in a comment             *)
(*   "quote"     a quote character that opens or closes a quotation        *)
(*   "backslash" a backslash that escapes the next character               *)
(*   "escaped"   the character such a backslash escapes                    *)
(*   "single"    inside single quotes,  "double"  inside double quotes     *)
(*   "comment"   from a # that starts a word up to the end of the line     *)
(* With comments = FALSE the # is an ordinary character: that is the       *)
(* quoting alone, the one thing the scans of perms.rs track.               *)

WordBreaks == {" ", TAB, NL, ";", "|", "&", "<", ">", "(", ")"}

RECURSIVE Lex(_, _, _, _, _, _)
Lex(s, i, mode, in_word, comments, tags) ==
    IF i > Len(s) THEN tags
    ELSE LET c == s[i]
             one(tag, m, w) == Lex(s, i + 1, m, w, comments, Append(tags, tag))
             two(m) == Lex(s, i + 2, m, TRUE, comments,
                           tags \o <<"backslash", "escaped">>)
         IN  CASE mode = "plain" ->
                      IF c = BS
                          THEN IF i < Len(s) THEN two("plain")
                               ELSE one("backslash", "plain", TRUE)
                      ELSE IF c = SQ THEN one("quote", "single", TRUE)
                      ELSE IF c = DQ THEN one("quote", "double", TRUE)
                      ELSE IF c = "#" /\ comments /\ ~in_word
                          THEN one("comment", "comment", FALSE)
                      ELSE one("plain", "plain", c \notin WordBreaks)
               [] mode = "single" ->
                      IF c = SQ THEN one("quote", "plain", TRUE)
                      ELSE one("single", "single", TRUE)
               [] mode = "double" ->
                      IF c = BS /\ i < Len(s) /\ s[i + 1] \in {"$", BT, DQ, BS, NL}
                          THEN two("double")
                      ELSE IF c = DQ THEN one("quote", "plain", TRUE)
                      ELSE one("double", "double", TRUE)
               [] OTHER -> \* in a comment
                      IF c = NL THEN one("plain", "plain", FALSE)
                      ELSE one("comment", "comment", FALSE)

ShellTags(s) == Lex(s, 1, "plain", FALSE, TRUE, <<>>)
QuoteTags(s) == Lex(s, 1, "plain", FALSE, FALSE, <<>>)

\* Character i of s starts a control operator of the claims' list.
IsOperatorAt(s, i) ==
    \/ s[i] \in OperatorChars \cup {BT, NL}
    \/ s[i] = "$" /\ i < Len(s) /\ s[i + 1] = "("

\* The shell would act on a control operator of s.
HasUnquotedOperator(s) ==
    LET tags == ShellTags(s)
    IN  \E i \in 1..Len(s) : tags[i] = "plain" /\ IsOperatorAt(s, i)

\* The segments the shell sees: s cut at each plain | & ; and newline.
RECURSIVE ShellSegmentsFrom(_, _, _, _)
ShellSegmentsFrom(s, tags, i, start) ==
    IF i > Len(s) THEN <<SubSeq(s, start, Len(s))>>
    ELSE IF tags[i] = "plain" /\ s[i] \in SplitChars \cup {NL}
        THEN <<SubSeq(s, start, i - 1)>> \o ShellSegmentsFrom(s, tags, i + 1, i + 1)
    ELSE ShellSegmentsFrom(s, tags, i + 1, start)

ShellSegments(s) == ShellSegmentsFrom(s, ShellTags(s), 1, 1)

Called == result # NoResult
BypassOff == ~allow_unsafe_commands(unsafe_env)

----------------------------------------------------------------------------
(* Claims C1 to C3: safety of the classifier.                              *)

\* C1: with the bypass disabled, a command that contains a control operator
\* (; | & > < backtick newline or $( ) outside quotes and not escaped is
\* never classified Allowed. Stated of the trimmed command, the form most
\* favourable to the code: leading and trailing whitespace is not counted.
C1_UnquotedOperatorNeverAllowed ==
    (Called /\ BypassOff /\ HasUnquotedOperator(Trim(cmd)))
        => result.kind # "Allowed"

\* The program of a segment, when it has one, is on an allowlist.
SegmentProgramAllowed(seg, allowlist) ==
    LET parsed == shell_words_split(Trim(seg))
    IN  \/ Trim(seg) = <<>>
        \/ /\ parsed.ok
           /\ parsed.words # <<>> => parsed.words[1] \in SAFE_COMMANDS \cup allowlist

\* C2: with the bypass disabled, when the classifier answers Ok the first
\* token of every non-empty segment of the command, cut at the unquoted
\* | & ; and newline, is in the builtin safe set or the custom allowlist.
C2_EverySegmentProgramAllowed ==
    (Called /\ BypassOff /\ IsOk(result))
        => LET segs == ShellSegments(Trim(cmd))
           IN  \A k \in 1..Len(segs) : SegmentProgramAllowed(segs[k], custom)

DestructivePatterns ==
    {<<"r", "m", " ", "-", "r", "f", " ", "/">>,
     <<"r", "m", " ", "-", "r", "f", " ", "-", "-", " ", "/">>,
     <<"s", "u", "d", "o", " ">>,
     <<"m", "k", "f", "s">>,
     <<"d", "d", " ", "i", "f", "=">>}

MatchesDestructive(c) ==
    \E pat \in DestructivePatterns : Contains(ToLowercase(c), pat)

\* C3: with the bypass disabled and whatever the custom allowlist holds, a
\* command whose text contains a destructive pattern, in any letter case,
\* is answered with an error.
C3_DestructiveNeverOk ==
    (Called /\ BypassOff /\ MatchesDestructive(cmd)) => result.kind = "Err"

\* C3 witness: rm is allowlisted by the user and the blocklist rejects.
C3_Witness ==
    /\ Called /\ BypassOff /\ rm \in custom
    /\ MatchesDestructive(cmd)
    /\ result = Err("RmRf")

----------------------------------------------------------------------------
(* Claims C9 and C10: quoted and escaped operator characters.              *)

ScanHit(s) == control_operator_scan(s, 1, FALSE, FALSE, FALSE)

\* The case of C9: a command of one segment whose program is allowlisted
\* and whose ; | & > < are all inside single or double quotes.
QuotedOperatorsOnly(t, allowlist) ==
    LET tags == QuoteTags(t)
        parsed == shell_words_split(t)
    IN  /\ \E i \in 1..Len(t) : t[i] \in OperatorChars
        /\ \A i \in 1..Len(t) :
              /\ t[i] \in OperatorChars => tags[i] \in {"single", "double"}
              /\ t[i] = NL => tags[i] # "plain"
        /\ parsed.ok /\ parsed.words # <<>>
        /\ parsed.words[1] \in SAFE_COMMANDS \cup allowlist

\* Nothing else of the command calls for a confirmation or a rejection.
NothingElseObjected(c, allowlist) ==
    LET t == Trim(c)
        tags == QuoteTags(t)
        tokens == shell_words_split(t).words
    IN  /\ \A i \in 1..Len(t) :
              /\ t[i] = BT => tags[i] # "plain"
              /\ (t[i] = "$" /\ i < Len(t) /\ t[i + 1] = "(")
                     => tags[i] \notin {"plain", "double"}
        /\ tokens[1] \in allowlist
              \/ enforce_program_specific_rules(tokens[1], tokens) = "none"
        /\ ~MatchesDestructive(c)

echoQuotedSemicolon == <<"e", "c", "h", "o", " ", DQ, "a", ";", "b", DQ>>

\* C9 as stated: every command of one segment whose program is allowlisted
\* and whose only ; | & > < are inside quotes is classified Allowed and is
\* not split.
C9_AsStated ==
    (Called /\ BypassOff /\ QuotedOperatorsOnly(Trim(cmd), custom))
        => /\ result = Allowed
           /\ Len(split_command_segments(Trim(cmd))) = 1

\* C9 as amended: such a command is not split, and it is classified Allowed
\* when it also has no unquoted backtick, no $( outside single quotes,
\* passes the find and sed rules and matches no destructive pattern.
C9_QuotedOperatorsInert ==
    (Called /\ BypassOff /\ QuotedOperatorsOnly(Trim(cmd), custom))
        => /\ Len(split_command_segments(Trim(cmd))) = 1
           /\ NothingElseObjected(cmd, custom) => result = Allowed

\* C9 witness: a command with a quoted operator character was classified.
C9_Witness ==
    /\ Called /\ BypassOff
    /\ QuotedOperatorsOnly(Trim(cmd), custom)
    /\ NothingElseObjected(cmd, custom)
    /\ cmd = echoQuotedSemicolon
    /\ result = Allowed

\* The characters at which split_command_segments cut t, read off the
\* segments it returned.
RECURSIVE SplitPointsFrom(_, _, _, _)
SplitPointsFrom(t, segs, k, pos) ==
    IF k >= Len(segs) THEN {}
    ELSE LET at == pos + Len(segs[k])
             doubled == at < Len(t) /\ t[at] \in SplitChars /\ t[at + 1] = t[at]
         IN  {at} \cup SplitPointsFrom(t, segs, k + 1,
                                       IF doubled THEN at + 2 ELSE at + 1)

SplitPoints(t) == SplitPointsFrom(t, split_command_segments(t), 1, 1)

\* Character i of t follows a backslash that is outside single quotes and
\* is not itself escaped.
EscapedAt(t, tags, i) ==
    i > 1 /\ t[i - 1] = BS /\ tags[i - 1] \in {"backslash", "double"}

grepEscapedPipe == <<"g", "r", "e", "p", " ", "a", BS, "|", "b", " ", "f">>

\* C10: a backslash outside single quotes escapes exactly the next
\* character in the scan and in the splitter: an escaped character neither
\* sets the confirmation flag nor is a split point, and grep a\|b f is
\* Allowed. Inside single quotes a backslash escapes nothing: the quote
\* after it closes the quotation and an operator behind it counts.
C10_BackslashEscapesNext ==
    (Called /\ BypassOff)
        => LET t == Trim(cmd)
               tags == QuoteTags(t)
           IN  /\ \A i \in 1..Len(t) :
                      EscapedAt(t, tags, i)
                          => ScanHit(t) # i /\ i \notin SplitPoints(t)
               /\ \A i \in 2..(Len(t) - 1) :
                      (/\ t[i - 1] = BS /\ tags[i - 1] = "single"
                       /\ t[i] = SQ /\ t[i + 1] \in SplitChars)
                          => /\ ScanHit(t) \in 1..(i + 1)
                             /\ (i + 1) \in SplitPoints(t)
               /\ cmd = grepEscapedPipe => result = Allowed

\* C10 witness: a command with an escaped operator was classified Allowed.
C10_Witness ==
    /\ Called /\ BypassOff
    /\ \E i \in 1..Len(cmd) :
          EscapedAt(cmd, QuoteTags(cmd), i) /\ cmd[i] \in OperatorChars
    /\ result = Allowed

----------------------------------------------------------------------------
(* Claims C11 to C14: the find and sed rules, the custom allowlist and the *)
(* bypass.                                                                 *)

\* The words of a segment as the shell reads them, or none when the
\* segment cannot be read.
SegmentWords(seg) ==
    LET parsed == shell_words_split(Trim(seg))
    IN  IF parsed.ok THEN parsed.words ELSE <<>>

\* A find with a delete or exec action.
IsFindWithAction(words) ==
    /\ words # <<>>
    /\ words[1] = find
    /\ \E k \in 1..Len(words) :
          words[k] \in {<<"-", "d", "e", "l", "e", "t", "e">>,
                        <<"-", "e", "x", "e", "c">>,
                        <<"-", "e", "x", "e", "c", "d", "i", "r">>,
                        <<"-", "o", "k">>,
                        <<"-", "o", "k", "d", "i", "r">>}

\* A sed with an in-place flag.
IsSedInPlace(words) ==
    /\ words # <<>>
    /\ words[1] = sed
    /\ \E k \in 1..Len(words) :
          Len(words[k]) >= 2 /\ SubSeq(words[k], 1, 2) = <<"-", "i">>

\* C11: with the bypass disabled and find and sed not in the custom
\* allowlist, a command is rejected when any of its segments, cut at the
\* unquoted | & ; and newline, is a find with a delete or exec action or a
\* sed with an in-place flag.
C11_FindSedRulesInEverySegment ==
    (Called /\ BypassOff /\ find \notin custom /\ sed \notin custom)
        => LET segs == ShellSegments(Trim(cmd))
           IN  \A k \in 1..Len(segs) :
                   (\/ IsFindWithAction(SegmentWords(segs[k]))
                    \/ IsSedInPlace(SegmentWords(segs[k])))
                       => result.kind = "Err"

findDelete == <<"f", "i", "n", "d", " ", ".", " ", "-", "d", "e", "l", "e", "t", "e">>
sedInPlace == <<"s", "e", "d", " ", "-", "i", " ", "x">>

\* C12: the find and sed rules are skipped for a program in the custom
\* allowlist, also though find and sed are in the builtin safe set: with
\* find custom-allowed no command is rejected by the find rule and
\* find . -delete is Allowed, with sed custom-allowed no command is
\* rejected by the sed rule and sed -i x is Allowed.
C12_CustomAllowlistSkipsRules ==
    (Called /\ BypassOff)
        => /\ find \in custom
                => /\ result # Err("FindDeleteExec")
                   /\ cmd = findDelete => result = Allowed
           /\ sed \in custom
                => /\ result # Err("SedInPlace")
                   /\ cmd = sedInPlace => result = Allowed

\* C12 witness: find . -delete was classified Allowed with find in the
\* custom allowlist.
C12_Witness ==
    /\ Called /\ BypassOff
    /\ find \in custom /\ find \in SAFE_COMMANDS
    /\ cmd = findDelete
    /\ result = Allowed

rmRfRoot == <<"r", "m", " ", "-", "r", "f", " ", "/">>

\* C13: when the bypass is enabled ensure_safe_command answers Allowed for
\* every command, whatever the custom allowlist holds: for the empty
\* command, a program on no allowlist, a destructive pattern and a command
\* with control operators alike.
C13_BypassAllowsEverything ==
    (Called /\ ~BypassOff) => result = Allowed

\* C13 witness: rm -rf / was classified Allowed under the bypass, with rm on
\* no allowlist.
C13_Witness ==
    /\ Called /\ ~BypassOff
    /\ unsafe_env = EnvSet(<<"1">>)
    /\ cmd = rmRfRoot /\ rm \notin custom
    /\ result = Allowed

\* The argument of the last set_custom_allowlist call as a set, empty
\* after a clear and before any call.
LastSetArgument ==
    IF last_call.op = "set"
        THEN {last_call.commands[k] : k \in 1..Len(last_call.commands)}
        ELSE {}

\* A plain invocation of a program that is not a builtin: words of
\* ordinary characters separated by blanks, with no quoting, comment or
\* operator, that match no destructive pattern.
InvokesNonBuiltin(c) ==
    LET t == Trim(c)
        parsed == shell_words_split(t)
    IN  /\ t # <<>>
        /\ \A i \in 1..Len(t) :
              t[i] \notin OperatorChars \cup {SQ, DQ, BS, BT, NL, "#", "$"}
        /\ parsed.words[1] \notin SAFE_COMMANDS
        /\ ~MatchesDestructive(c)

rmX == <<"r", "m", " ", "x">>

\* C14: after any sequence of set_custom_allowlist and
\* clear_custom_allowlist calls the custom allowlist is exactly the argument
\* of the last set call, or empty after a clear: set replaces and does not
\* merge. With the bypass disabled a program that is not a builtin is
\* accepted iff it is in that set, and a rejection as not allowed names a
\* program outside it.
C14_AllowlistIsLastSetArgument ==
    /\ custom = LastSetArgument
    /\ custom \subseteq CustomCandidates
    /\ (Called /\ BypassOff)
          => /\ InvokesNonBuiltin(cmd)
                   => (IsOk(result)
                          <=> shell_words_split(Trim(cmd)).words[1] \in LastSetArgument)
             /\ result.err = "CommandNotAllowed"
                   => result.program \notin LastSetArgument \cup SAFE_COMMANDS

\* C14 witness: rm x was classified after set_custom_allowlist([find]) and
\* rejected, rm not being in the allowlist.
C14_Witness ==
    /\ Called /\ BypassOff
    /\ cmd = rmX /\ InvokesNonBuiltin(cmd)
    /\ last_call = SetCall(<<find>>)
    /\ result = CommandNotAllowedError(rm)

----------------------------------------------------------------------------
(* The path guard claims. What they call the lexical normalization, the    *)
(* allowed roots and the place a path leads to is written here             *)
(* independently of the operators that model perms.rs.                     *)

PathCalled == path_result # NoPathResult

IsPrefix(root, path) ==
    /\ Len(root) <= Len(path)
    /\ \A i \in 1..Len(root) : path[i] = root[i]

\* The components of comps up to the k-th, "." dropped and each ".."
\* cancelling the last component that is left, if any.
RECURSIVE LexicalPrefix(_, _)
LexicalPrefix(comps, k) ==
    IF k = 0 THEN <<>>
    ELSE LET before == LexicalPrefix(comps, k - 1)
         IN  CASE comps[k] = "." -> before
               [] comps[k] = ".." ->
                      IF Len(before) = 0 THEN before
                      ELSE [i \in 1..(Len(before) - 1) |-> before[i]]
               [] OTHER -> before \o <<comps[k]>>

LexicalNormalization(p, current_dir) ==
    LET joined == IF p.abs THEN p.comps ELSE current_dir \o p.comps
    IN  LexicalPrefix(joined, Len(joined))

\* home, canonical home, cwd and canonical cwd.
AllowedRoots ==
    (IF home.some THEN {home.path} ELSE {})
    \cup (IF home.some /\ exists(fs, home.path)
          THEN {canonicalize(fs, home.path).path} ELSE {})
    \cup {cwd}
    \cup (IF exists(fs, cwd) THEN {canonicalize(fs, cwd).path} ELSE {})

InsideAllowedRoot(path) == \E root \in AllowedRoots : IsPrefix(root, path)

traversal == PathOf(FALSE, <<"..", "..", "f">>)

\* C7: ensure_safe_path rejects every path whose lexical normalization
\* (relative paths joined to the cwd, "." dropped, ".." popping, never above
\* the root) has none of home, canonical home, cwd, canonical cwd as a
\* prefix; in particular ../../f from a working directory one level below
\* home is rejected.
C7_LexicallyOutsideRejected ==
    PathCalled =>
        /\ ~InsideAllowedRoot(LexicalNormalization(path_arg, cwd))
               => path_result = PathRefused
        /\ (path_arg = traversal /\ home.some /\ Len(cwd) = Len(home.path) + 1
               /\ IsPrefix(home.path, cwd))
               => path_result = PathRefused

C7_Witness ==
    /\ path_arg = traversal
    /\ home = SomeHome(<<"h">>)
    /\ cwd = workspace
    /\ path_result = PathRefused

\* Where an access to the absolute path rest, looked up from the resolved
\* directory base, really leads: symlinks are followed, names that do not
\* exist are kept as they are (they would be created there).
RECURSIVE Destination(_, _, _, _)
Destination(f, base, rest, hops) ==
    IF rest = <<>> THEN [ok |-> TRUE, path |-> base]
    ELSE LET q == base \o <<rest[1]>>
         IN  IF q \in DOMAIN f /\ f[q].kind = "link"
             THEN IF hops >= MaxSymlinkHops THEN [ok |-> FALSE, path |-> q]
                  ELSE Destination(f, <<>>, f[q].target \o Tail(rest), hops + 1)
             ELSE Destination(f, q, Tail(rest), hops)

LeadsTo(path) == Destination(fs, <<>>, path, 0)

\* The k-th component of path is a symlink whose resolution lies outside
\* every allowed root.
EscapesAt(path, k) ==
    LET dir == LeadsTo(SubSeq(path, 1, k - 1))
        upto == LeadsTo(SubSeq(path, 1, k))
    IN  /\ dir.ok /\ upto.ok
        /\ (dir.path \o <<path[k]>>) \in DOMAIN fs
        /\ fs[dir.path \o <<path[k]>>].kind = "link"
        /\ ~InsideAllowedRoot(upto.path)

ReachedThroughEscapingSymlink(path) ==
    \E k \in 1..Len(path) : EscapesAt(path, k)

\* C8: for every filesystem state, ensure_safe_path rejects a path that
\* lexically lies inside an allowed root but is reached through a symlink
\* (at any component, whether or not the target of the link exists) whose
\* resolution lies outside every allowed root.
C8_SymlinkEscapeRejected ==
    LET resolved == LexicalNormalization(path_arg, cwd)
    IN  (PathCalled /\ InsideAllowedRoot(resolved)
            /\ ReachedThroughEscapingSymlink(resolved))
            => path_result # PathOk

----------------------------------------------------------------------------
(* run of tools/execute_command.rs as a state machine. The steps of the    *)
(* call are the stretches of code between two points where it blocks: a    *)
(* prompt, the receive of the drain, the timer, the KillSwitch calls. The  *)
(* child, its descendants, the reader tasks and the timer take their own   *)
(* steps in between.                                                       *)

MaxBytes == 2

RunCommands ==
    {<<"l", "s">>,
     <<"e", "c", "h", "o", " ", "a", " ", ">", "f">>,
     <<"c", "u", "r", "l", " ", "x">>,
     <<"r", "m", " ", "-", "r", "f", " ", "/">>}

CwdArgs == {NoCwd, SomeCwd(PathOf(TRUE, <<"etc">>))}
Terminals == {"stdin", "tty", "none"}
Lines ==
    {<<"y">>, <<"Y", "E", "S", NL>>, <<" ", "y", "e", "s", " ", NL>>,
     <<"n">>, <<"y", "e">>, <<"y", " ", "y">>, <<NL>>, <<>>}
Backends == {"Plain", "Pty"}
ExitCodes == {0, 1}

InitRun ==
    /\ CallerIdle
    /\ ThreadsIdle
    /\ write_result = NoPathResult
    /\ ClassifierIdle
    /\ PathIdle
    /\ args \in [command : RunCommands, cwd : CwdArgs]
    /\ auto_yes \in BOOLEAN
    /\ on_chunk = TRUE
    /\ platform = PosixPlatform(TRUE)
    /\ pc = "start"
    /\ RunFresh

\* Lines 49 to 60: the command is classified; a rejection is returned.
run_classify ==
    /\ pc = "start"
    /\ LET d == ensure_safe_command(args.command, custom, unsafe_env)
       IN  /\ disposition' = d
           /\ pc' = IF IsOk(d) THEN "cwd_check" ELSE "returned"
           /\ outcome' = IF IsOk(d) THEN outcome ELSE RunBlocked(d)
    /\ UNCHANGED <<inputVars, prompts, warned, attempts, orphans, bufVars, ksVars, processVars,
                   timerVars, notRunVars>>

\* Lines 62 to 80 with the prompt issued whatever auto_yes is.
run_cwd_check_prompting_despite_auto(terminal, line) ==
    /\ pc = "cwd_check"
    /\ warned' = cwd_outside_home(fs, home, cwd, args)
    /\ IF cwd_outside_home(fs, home, cwd, args)
       THEN LET answer == prompt_yes_no(terminal, line)
            IN  /\ prompts' = Append(prompts, Asked(ProceedPrompt, answer))
                /\ pc' = IF answer = "yes" THEN "execute_check" ELSE "returned"
                /\ outcome' = CASE answer = "yes" -> outcome
                                 [] answer = "no" -> CanceledCwd
                                 [] OTHER -> PromptFailed
       ELSE /\ pc' = "execute_check"
            /\ UNCHANGED <<prompts, outcome>>
    /\ UNCHANGED <<inputVars, disposition, attempts, orphans, bufVars, ksVars, processVars,
                   timerVars, notRunVars>>

\* Lines 62 to 80: the warning and the extra confirmation for a working
\* directory outside the home directory.
run_cwd_check(terminal, line) ==
    /\ pc = "cwd_check"
    /\ warned' = cwd_outside_home(fs, home, cwd, args)
    /\ IF cwd_outside_home(fs, home, cwd, args) /\ ~auto_yes
       THEN LET answer == prompt_yes_no(terminal, line)
            IN  /\ prompts' = Append(prompts, Asked(ProceedPrompt, answer))
                /\ pc' = IF answer = "yes" THEN "execute_check" ELSE "returned"
                /\ outcome' = CASE answer = "yes" -> outcome
                                 [] answer = "no" -> CanceledCwd
                                 [] OTHER -> PromptFailed
       ELSE /\ pc' = "execute_check"
            /\ UNCHANGED <<prompts, outcome>>
    /\ UNCHANGED <<inputVars, disposition, attempts, orphans, bufVars, ksVars, processVars,
                   timerVars, notRunVars>>

\* Lines 81 to 85 with the error of the prompt taken for a yes.
run_execute_check_ignoring_prompt_error(terminal, line) ==
    /\ pc = "execute_check"
    /\ IF execute_prompt_required(disposition.kind = "NeedsConfirmation", auto_yes)
       THEN LET answer == prompt_yes_no(terminal, line)
            IN  /\ prompts' = Append(prompts, Asked(ExecutePrompt, answer))
                /\ pc' = IF answer = "no" THEN "returned" ELSE "spawn"
                /\ outcome' = IF answer = "no" THEN Canceled ELSE outcome
       ELSE /\ pc' = "spawn"
            /\ UNCHANGED <<prompts, outcome>>
    /\ UNCHANGED <<inputVars, disposition, warned, attempts, orphans, bufVars, ksVars,
                   processVars, timerVars, notRunVars>>

\* Lines 81 to 85: the confirmation of the execution.
run_execute_check(terminal, line) ==
    /\ pc = "execute_check"
    /\ IF execute_prompt_required(disposition.kind = "NeedsConfirmation", auto_yes)
       THEN LET answer == prompt_yes_no(terminal, line)
            IN  /\ prompts' = Append(prompts, Asked(ExecutePrompt, answer))
                /\ pc' = IF answer = "yes" THEN "spawn" ELSE "returned"
                /\ outcome' = CASE answer = "yes" -> outcome
                                 [] answer = "no" -> Canceled
                                 [] OTHER -> PromptFailed
       ELSE /\ pc' = "spawn"
            /\ UNCHANGED <<prompts, outcome>>
    /\ UNCHANGED <<inputVars, disposition, warned, attempts, orphans, bufVars, ksVars, processVars,
                   timerVars, notRunVars>>

\* Lines 426 to 437: a PTY switch is on when the lower-cased value of its
\* environment variable is 1, true or yes.
env_switch(env) ==
    /\ env.set
    /\ ToLowercase(env.value) \in {<<"1">>, <<"t", "r", "u", "e">>, <<"y", "e", "s">>}

\* should_use_pty with the force switch losing against the disable switch.
should_use_pty_disable_wins(force_env, disable_env, stdout_is_tty) ==
    ~env_switch(disable_env) /\ (env_switch(force_env) \/ stdout_is_tty)

\* Lines 425 to 439, the unix build.
should_use_pty(force_env, disable_env, stdout_is_tty) ==
    env_switch(force_env) \/ (~env_switch(disable_env) /\ stdout_is_tty)

\* What spawn_child returns: the launches it tried, in order, the kind of
\* child it ended up with, "none" when it returned an error, and the
\* number of children it spawned and dropped on the way.
Launched(tried, backend, dropped_children) ==
    [attempts |-> tried, backend |-> backend, orphans |-> dropped_children]

\* Lines 393 to 422: the PTY is opened, the child is spawned on its slave
\* side, the reader is cloned from the master side; each step returns its
\* error with `?`. The child a failed clone leaves behind is dropped, and
\* dropping it neither kills nor waits for it.
spawn_child_with_pty(works) ==
    IF ~works["openpty"] THEN [ok |-> FALSE, spawned |-> 0]
    ELSE IF ~works["spawn_command"] THEN [ok |-> FALSE, spawned |-> 0]
    ELSE IF ~works["try_clone_reader"] THEN [ok |-> FALSE, spawned |-> 1]
    ELSE [ok |-> TRUE, spawned |-> 1]

\* spawn_posix_child returning the error of the PTY setup.
spawn_posix_child_returning_pty_error(p, works) ==
    LET pty == p.unix /\ should_use_pty(p.force_pty, p.disable_pty, p.stdout_tty)
        tried == spawn_child_with_pty(works)
    IN  IF pty /\ tried.ok THEN Launched(<<"pty">>, "Pty", 0)
        ELSE IF pty THEN Launched(<<"pty">>, "none", tried.spawned)
        ELSE Launched(<<"sh">>, IF works["sh"] THEN "Plain" ELSE "none", 0)

\* Lines 231 to 251. works says which steps succeed. The PTY block is
\* compiled on unix only; a PTY failure falls through to sh -lc on pipes.
spawn_posix_child(p, works) ==
    LET pty == p.unix /\ should_use_pty(p.force_pty, p.disable_pty, p.stdout_tty)
        tried == spawn_child_with_pty(works)
    IN  IF pty /\ tried.ok THEN Launched(<<"pty">>, "Pty", 0)
        ELSE IF pty
             THEN Launched(<<"pty", "sh">>, IF works["sh"] THEN "Plain" ELSE "none",
                           tried.spawned)
        ELSE Launched(<<"sh">>, IF works["sh"] THEN "Plain" ELSE "none", 0)

\* Lines 253 to 266.
spawn_cmd_child(p, works) ==
    Launched(<<"cmd.exe">>, IF works["cmd.exe"] THEN "Plain" ELSE "none", 0)

\* Lines 268 to 301: the candidates in order, the first that spawns wins.
\* (The Windows build names them pwsh.exe and powershell.exe.)
spawn_powershell_child(p, works) ==
    IF works["pwsh"] THEN Launched(<<"pwsh">>, "Plain", 0)
    ELSE Launched(<<"pwsh", "powershell">>,
                  IF works["powershell"] THEN "Plain" ELSE "none", 0)

\* Lines 223 to 229.
spawn_child(p, works) ==
    CASE p.shell = "Posix" -> spawn_posix_child(p, works)
      [] p.shell = "CmdExe" -> spawn_cmd_child(p, works)
      [] p.shell = "PowerShell" -> spawn_powershell_child(p, works)

\* Lines 311 to 335: the owners of the senders once setup_stream_tasks has
\* returned. A Plain child gets one clone per pipe reader and the sender
\* passed in is dropped at the return; a Pty child's reader gets the
\* sender passed in. run still holds the sender it cloned from.
setup_stream_tasks(backend) == streams_of(backend) \cup {"run"}

\* run keeping its sender for the whole call.
drop_kept(owners) == owners

\* Line 94: drop(tx).
drop(owners) == owners \ {"run"}

\* Lines 87 to 94 and 123: the child is spawned with the backend the
\* launcher ends up with ("none" when the spawn fails), the reader tasks
\* are started, run drops its sender and the timer is armed.
run_spawn(works) ==
    /\ pc = "spawn"
    /\ LET launched == spawn_child(platform, works)
           backend == launched.backend
       IN  /\ attempts' = launched.attempts
           /\ orphans' = orphans + launched.orphans
           /\ IF backend = "none"
              THEN /\ pc' = "returned"
                   /\ outcome' = SpawnFailed
                   /\ UNCHANGED <<child, holders, readers, senders, deadline>>
              ELSE /\ child' = Running(backend)
                   /\ holders' = [s \in Streams |->
                                      IF s \in streams_of(backend) THEN {"child"} ELSE {}]
                   /\ readers' = [s \in Streams |->
                                      IF s \in streams_of(backend) THEN "reading" ELSE "none"]
                   /\ senders' = drop(setup_stream_tasks(backend))
                   /\ deadline' = "armed"
                   /\ pc' = "drain"
                   /\ UNCHANGED outcome
    /\ UNCHANGED <<inputVars, disposition, prompts, warned, bufVars, ksVars, pipe,
                   written, channel, running_at_deadline, notRunVars>>

\* Lines 303 to 309: what every tokio Command is given before it is
\* spawned: the working directory, kill_on_drop(true), a null stdin.
configure_stdio == [stdin |-> "null", cwd |-> "set", kill_on_drop |-> TRUE]

\* Lines 405 to 413: what the CommandBuilder of the PTY child is given:
\* the working directory only. The child is spawned on the slave side of
\* the PTY, which becomes its stdin.
CommandBuilder == [stdin |-> "pty", cwd |-> "set", kill_on_drop |-> FALSE]

\* Lines 231 to 301: how the child of a backend was configured.
configuration(backend) ==
    CASE backend = "Plain" -> configure_stdio
      [] backend = "Pty" -> CommandBuilder
      [] OTHER -> [stdin |-> "none", cwd |-> "none", kill_on_drop |-> FALSE]

\* What dropping the KillSwitch does to the child: a child configured
\* with kill_on_drop(true) is killed, any other is left alone.
dropped(c) ==
    IF configuration(c.backend).kill_on_drop /\ c.status = "running"
    THEN [c EXCEPT !.status = "killed"]
    ELSE c

without_child(h) == [s \in Streams |-> h[s] \ {"child"}]

\* The handler call of lines 100 to 105.
handled(calls, handler, msg) ==
    IF handler THEN Append(calls, [kind |-> msg.kind, data |-> msg.data])
    ELSE calls

\* The drain with every chunk accumulated in the stdout buffer.
collect_recv_all_into_stdout ==
    /\ pc = "drain"
    /\ channel # <<>>
    /\ LET msg == Head(channel)
       IN  CASE msg.kind \in {"Stdout", "Stderr"} ->
                  /\ callbacks' = handled(callbacks, on_chunk, msg)
                  /\ stdout_buf' = stdout_buf \o msg.data
                  /\ channel' = Tail(channel)
                  /\ UNCHANGED <<stderr_buf, pc, outcome, child, holders>>
             [] OTHER ->
                  /\ pc' = "returned"
                  /\ outcome' = StreamFailed
                  /\ channel' = <<>>
                  /\ child' = dropped(child)
                  /\ holders' = IF dropped(child) = child THEN holders
                                ELSE without_child(holders)
                  /\ UNCHANGED bufVars
    /\ UNCHANGED <<inputVars, disposition, prompts, warned, attempts, orphans, ksVars, pipe, written,
                   readers, senders, timerVars, notRunVars>>

\* The drain skipping an Error message and going on.
collect_recv_skipping_errors ==
    /\ pc = "drain"
    /\ channel # <<>>
    /\ LET msg == Head(channel)
       IN  CASE msg.kind = "Stdout" ->
                  /\ callbacks' = handled(callbacks, on_chunk, msg)
                  /\ stdout_buf' = stdout_buf \o msg.data
                  /\ UNCHANGED stderr_buf
             [] msg.kind = "Stderr" ->
                  /\ callbacks' = handled(callbacks, on_chunk, msg)
                  /\ stderr_buf' = stderr_buf \o msg.data
                  /\ UNCHANGED stdout_buf
             [] OTHER -> UNCHANGED bufVars
    /\ channel' = Tail(channel)
    /\ UNCHANGED <<inputVars, pc, outcome, child, holders, disposition, prompts,
                   warned, attempts, orphans, ksVars, pipe, written, readers, senders,
                   timerVars, notRunVars>>

\* Lines 97 to 118: one message of the drain.
collect_recv ==
    /\ pc = "drain"
    /\ channel # <<>>
    /\ LET msg == Head(channel)
       IN  CASE msg.kind = "Stdout" ->
                  /\ callbacks' = handled(callbacks, on_chunk, msg)
                  /\ stdout_buf' = stdout_buf \o msg.data
                  /\ channel' = Tail(channel)
                  /\ UNCHANGED <<stderr_buf, pc, outcome, child, holders>>
             [] msg.kind = "Stderr" ->
                  /\ callbacks' = handled(callbacks, on_chunk, msg)
                  /\ stderr_buf' = stderr_buf \o msg.data
                  /\ channel' = Tail(channel)
                  /\ UNCHANGED <<stdout_buf, pc, outcome, child, holders>>
             [] OTHER ->
                  /\ pc' = "returned"
                  /\ outcome' = StreamFailed
                  /\ channel' = <<>>
                  /\ child' = dropped(child)
                  /\ holders' = IF dropped(child) = child THEN holders
                                ELSE without_child(holders)
                  /\ UNCHANGED bufVars
    /\ UNCHANGED <<inputVars, disposition, prompts, warned, attempts, orphans, ksVars, pipe, written,
                   readers, senders, timerVars, notRunVars>>

\* Lines 97, 120, 124 and 132: receive yields None once the queue is empty
\* and every sender is dropped; run then calls KillSwitch.wait.
collect_end ==
    /\ pc = "drain"
    /\ channel = <<>>
    /\ SendersAlive = {}
    /\ pc' = "waiting"
    /\ ks_calls' = Append(ks_calls, "wait")
    /\ UNCHANGED <<inputVars, disposition, prompts, warned, attempts, orphans, bufVars, ks_errors,
                   timed_out, outcome, processVars, timerVars, notRunVars>>

\* Lines 123 to 126: the timer wins the race against the drain; run calls
\* KillSwitch.terminate.
timeout_fires ==
    /\ pc = "drain"
    /\ deadline = "passed"
    /\ timed_out' = TRUE
    /\ pc' = "terminating"
    /\ ks_calls' = Append(ks_calls, "terminate")
    /\ UNCHANGED <<inputVars, disposition, prompts, warned, attempts, orphans, bufVars, ks_errors,
                   outcome, processVars, timerVars, notRunVars>>

\* Lines 186 to 201 and 126 to 127: terminate kills the child, discards
\* the error of the kill and returns Ok; run then calls KillSwitch.wait.
terminate_returns(kill_ok) ==
    /\ pc = "terminating"
    /\ IF kill_ok /\ child.status = "running"
       THEN /\ child' = [child EXCEPT !.status = "killed"]
            /\ holders' = without_child(holders)
       ELSE UNCHANGED <<child, holders>>
    /\ ks_errors' = IF kill_ok THEN ks_errors ELSE ks_errors \cup {"kill"}
    /\ pc' = "timeout_wait"
    /\ ks_calls' = Append(ks_calls, "wait")
    /\ UNCHANGED <<inputVars, disposition, prompts, warned, attempts, orphans, bufVars, timed_out,
                   outcome, pipe, written, readers, senders, channel, timerVars,
                   notRunVars>>

\* The timeout arm with the result of the wait propagated.
timeout_wait_returns_propagating(wait_ok) ==
    /\ pc = "timeout_wait"
    /\ child.status # "running"
    /\ ks_errors' = ks_errors
    /\ outcome' = IF wait_ok THEN TimedOut ELSE WaitFailed
    /\ pc' = "returned"
    /\ channel' = <<>>
    /\ UNCHANGED <<inputVars, disposition, prompts, warned, attempts, orphans, bufVars, ks_calls,
                   timed_out, child, holders, pipe, written, readers, senders,
                   timerVars, notRunVars>>

\* Lines 203 to 220 and 127 to 128: the wait returns once the child has
\* ended; its result is discarded and the timeout error is returned.
timeout_wait_returns(wait_ok) ==
    /\ pc = "timeout_wait"
    /\ child.status # "running"
    /\ ks_errors' = IF wait_ok THEN ks_errors ELSE ks_errors \cup {"wait"}
    /\ outcome' = TimedOut
    /\ pc' = "returned"
    /\ channel' = <<>>
    /\ UNCHANGED <<inputVars, disposition, prompts, warned, attempts, orphans, bufVars, ks_calls,
                   timed_out, child, holders, pipe, written, readers, senders,
                   timerVars, notRunVars>>

\* Lines 203 to 220 and 132 to 157: the wait after a completed drain
\* returns once the child has ended; its error is returned, its code goes
\* into the summary.
wait_returns(wait_ok) ==
    /\ pc = "waiting"
    /\ child.status # "running"
    /\ outcome' = IF wait_ok
                  THEN RunOk(summary(exit_code(child),
                                     from_utf8_lossy(stdout_buf),
                                     from_utf8_lossy(stderr_buf)))
                  ELSE WaitFailed
    /\ pc' = "returned"
    /\ UNCHANGED <<inputVars, disposition, prompts, warned, attempts, orphans, bufVars, ksVars,
                   processVars, timerVars, notRunVars>>

\* The child, or a descendant that inherited the stream, writes one byte.
\* The bytes of a stream are numbered in the order they are written; the
\* streams together carry at most MaxBytes bytes.
child_writes(s) ==
    /\ holders[s] # {}
    /\ written["Stdout"] + written["Stderr"] < MaxBytes
    /\ written' = [written EXCEPT ![s] = @ + 1]
    /\ pipe' = [pipe EXCEPT ![s] = Append(@, written[s] + 1)]
    /\ UNCHANGED <<child, holders, readers, senders, channel, callVars, timerVars,
                   notRunVars>>

\* The child closes its end of a stream and keeps running.
child_closes(s) ==
    /\ child.status = "running"
    /\ "child" \in holders[s]
    /\ holders' = [holders EXCEPT ![s] = @ \ {"child"}]
    /\ UNCHANGED <<child, pipe, written, readers, senders, channel, callVars,
                   timerVars, notRunVars>>

\* The child starts a descendant, which inherits the streams the child
\* has open.
child_forks ==
    /\ child.status = "running"
    /\ \A s \in Streams : "descendant" \notin holders[s]
    /\ \E s \in Streams : "child" \in holders[s]
    /\ holders' = [s \in Streams |->
                       IF "child" \in holders[s]
                       THEN holders[s] \cup {"descendant"} ELSE holders[s]]
    /\ UNCHANGED <<child, pipe, written, readers, senders, channel, callVars,
                   timerVars, notRunVars>>

\* The child ends on its own; its ends of the streams are closed.
child_exits(code) ==
    /\ child.status = "running"
    /\ child' = [child EXCEPT !.status = "exited", !.code = code]
    /\ holders' = without_child(holders)
    /\ UNCHANGED <<pipe, written, readers, senders, channel, callVars, timerVars,
                   notRunVars>>

descendant_exits ==
    /\ \E s \in Streams : "descendant" \in holders[s]
    /\ holders' = [s \in Streams |-> holders[s] \ {"descendant"}]
    /\ UNCHANGED <<child, pipe, written, readers, senders, channel, callVars,
                   timerVars, notRunVars>>

\* A reader whose chunk overtakes the chunks that are still in the channel.
reader_reads_overtaking(s, n) ==
    /\ readers[s] = "reading"
    /\ n \in 1..Len(pipe[s])
    /\ pipe' = [pipe EXCEPT ![s] = SubSeq(@, n + 1, Len(@))]
    /\ IF pc = "returned"
       THEN /\ readers' = [readers EXCEPT ![s] = "done"]
            /\ senders' = senders \ {s}
            /\ UNCHANGED channel
       ELSE /\ channel' = <<[kind |-> s, data |-> SubSeq(pipe[s], 1, n)]>> \o channel
            /\ UNCHANGED <<readers, senders>>
    /\ UNCHANGED <<child, holders, written, callVars, timerVars, notRunVars>>

\* Lines 345 to 356 and 372 to 378: a read returns the first n bytes that
\* are there; they are sent as one chunk, and the task ends when the send
\* fails because run has returned and dropped the receiver.
reader_reads(s, n) ==
    /\ readers[s] = "reading"
    /\ n \in 1..Len(pipe[s])
    /\ pipe' = [pipe EXCEPT ![s] = SubSeq(@, n + 1, Len(@))]
    /\ IF pc = "returned"
       THEN /\ readers' = [readers EXCEPT ![s] = "done"]
            /\ senders' = senders \ {s}
            /\ UNCHANGED channel
       ELSE /\ channel' = Append(channel, [kind |-> s, data |-> SubSeq(pipe[s], 1, n)])
            /\ UNCHANGED <<readers, senders>>
    /\ UNCHANGED <<child, holders, written, callVars, timerVars, notRunVars>>

\* Lines 346 and 373: a read returns 0 when nothing is left and nobody
\* holds the write end; the task ends and its sender is dropped.
reader_eof(s) ==
    /\ readers[s] = "reading"
    /\ pipe[s] = <<>>
    /\ holders[s] = {}
    /\ readers' = [readers EXCEPT ![s] = "done"]
    /\ senders' = senders \ {s}
    /\ UNCHANGED <<child, holders, pipe, written, channel, callVars,
                   timerVars, notRunVars>>

\* Lines 357 to 360 and 379 to 382: a read fails; the error is sent and
\* the task ends.
reader_error(s) ==
    /\ readers[s] = "reading"
    /\ readers' = [readers EXCEPT ![s] = "done"]
    /\ senders' = senders \ {s}
    /\ channel' = IF pc = "returned" THEN channel
                  ELSE Append(channel, [kind |-> "Error", data |-> <<>>])
    /\ UNCHANGED <<child, holders, pipe, written, callVars, timerVars,
                   notRunVars>>

\* 120 s have gone by since the timer was armed.
deadline_passes ==
    /\ deadline = "armed"
    /\ pc # "returned"
    /\ deadline' = "passed"
    /\ running_at_deadline' = (child.status = "running")
    /\ UNCHANGED <<processVars, callVars, notRunVars>>

NextRun ==
    \/ run_classify
    \/ \E terminal \in Terminals, line \in Lines : run_cwd_check(terminal, line)
    \/ \E terminal \in Terminals, line \in Lines : run_execute_check(terminal, line)
    \/ \E works \in ReaderCloned : run_spawn(works)
    \/ collect_recv
    \/ collect_end
    \/ timeout_fires
    \/ \E kill_ok \in BOOLEAN : terminate_returns(kill_ok)
    \/ \E wait_ok \in BOOLEAN : timeout_wait_returns(wait_ok)
    \/ \E wait_ok \in BOOLEAN : wait_returns(wait_ok)
    \/ \E s \in Streams : child_writes(s)
    \/ \E s \in Streams : child_closes(s)
    \/ child_forks
    \/ \E code \in ExitCodes : child_exits(code)
    \/ descendant_exits
    \/ \E s \in Streams, n \in 1..MaxBytes : reader_reads(s, n)
    \/ \E s \in Streams : reader_eof(s)
    \/ \E s \in Streams : reader_error(s)
    \/ deadline_passes

SpecRun == InitRun /\ [][NextRun]_vars

----------------------------------------------------------------------------
(* The drain and the summary on their own, with the bytes a command can    *)
(* write: run is in its drain, the child has ended, the reader tasks have  *)
(* sent what they read and have ended.                                     *)

MaxOut == 2

\* A newline, and the two bytes of the UTF-8 form of U+00E9, each of which
\* is not valid UTF-8 on its own.
ByteValues == {10, 195, 169}

Chunks == UNION {[1..k -> ByteValues] : k \in 1..MaxOut}

StreamMessages ==
    {[kind |-> k, data |-> d] : k \in Streams, d \in Chunks}
        \cup {[kind |-> "Error", data |-> <<>>]}

\* The bytes of the messages of kind s in a sequence of messages, in the
\* order of the sequence.
RECURSIVE BytesOf(_, _)
BytesOf(msgs, s) ==
    IF msgs = <<>> THEN <<>>
    ELSE (IF Head(msgs).kind = s THEN Head(msgs).data ELSE <<>>)
             \o BytesOf(Tail(msgs), s)

RECURSIVE TotalBytes(_)
TotalBytes(msgs) ==
    IF msgs = <<>> THEN 0 ELSE Len(Head(msgs).data) + TotalBytes(Tail(msgs))

\* What the reader tasks of a backend can have left in the channel: an
\* Error is the last message of its reader, so the messages after it come
\* from one other reader, and a PTY child has one reader, of kind Stdout.
SentBy(backend, msgs) ==
    /\ TotalBytes(msgs) <= MaxOut
    /\ \A i \in 1..Len(msgs) :
          /\ msgs[i].kind \in streams_of(backend) \cup {"Error"}
          /\ msgs[i].kind = "Error"
                => /\ backend = "Pty" => i = Len(msgs)
                   /\ \E s \in Streams :
                         \A j \in (i + 1)..Len(msgs) : msgs[j].kind = s
                   /\ \A j \in 1..(i - 1) :
                         msgs[j].kind = "Error" => i = Len(msgs)

Exited(backend, code) == [backend |-> backend, status |-> "exited", code |-> code]
Signaled(backend) == [backend |-> backend, status |-> "killed", code |-> 0]

\* The children whose end KillSwitch.wait reports: ended with a code, or,
\* for a plain child, ended by a signal.
EndedChildren ==
    {Exited(backend, code) : backend \in Backends, code \in ExitCodes \cup {127}}
        \cup {Signaled("Plain")}

InitDrain ==
    /\ CallerIdle
    /\ ThreadsIdle
    /\ write_result = NoPathResult
    /\ ClassifierIdle
    /\ PathIdle
    /\ args = [command |-> <<"l", "s">>, cwd |-> NoCwd]
    /\ auto_yes = TRUE
    /\ on_chunk \in BOOLEAN
    /\ platform = PosixPlatform(TRUE)
    /\ pc = "drain"
    /\ disposition = Allowed
    /\ prompts = <<>>
    /\ warned = FALSE
    /\ child \in EndedChildren
    /\ attempts = IF child.backend = "Pty" THEN <<"pty">> ELSE <<"pty", "sh">>
    /\ orphans = 0
    /\ holders = [s \in Streams |-> {}]
    /\ pipe = [s \in Streams |-> <<>>]
    /\ channel \in UNION {[1..k -> StreamMessages] : k \in 0..MaxOut}
    /\ SentBy(child.backend, channel)
    /\ written = [s \in Streams |-> Len(BytesOf(channel, s))]
    /\ readers = [s \in Streams |->
                      IF s \in streams_of(child.backend) THEN "done" ELSE "none"]
    /\ senders = {}
    /\ stdout_buf = <<>>
    /\ stderr_buf = <<>>
    /\ callbacks = <<>>
    /\ ks_calls = <<>>
    /\ ks_errors = {}
    /\ deadline = "armed"
    /\ running_at_deadline = FALSE
    /\ timed_out = FALSE
    /\ outcome = NoOutcome

NextDrain ==
    \/ collect_recv
    \/ collect_end
    \/ \E wait_ok \in BOOLEAN : wait_returns(wait_ok)

SpecDrain == InitDrain /\ [][NextDrain]_vars

----------------------------------------------------------------------------
(* Backend selection: run at the point where it calls spawn_child, for     *)
(* every shell kind, both builds, the values of the two PTY switches and   *)
(* stdout on a terminal or not.                                            *)

PtyEnvValues ==
    {EnvUnset, EnvSet(<<"1">>), EnvSet(<<"T", "R", "U", "E">>),
     EnvSet(<<"Y", "e", "s">>), EnvSet(<<"0">>)}

Platforms ==
    [shell : ShellKinds, unix : BOOLEAN, force_pty : PtyEnvValues,
     disable_pty : PtyEnvValues, stdout_tty : BOOLEAN]

InitSpawn ==
    /\ CallerIdle
    /\ ThreadsIdle
    /\ write_result = NoPathResult
    /\ ClassifierIdle
    /\ PathIdle
    /\ args = [command |-> <<"l", "s">>, cwd |-> NoCwd]
    /\ auto_yes = TRUE
    /\ on_chunk = FALSE
    /\ platform \in Platforms
    /\ pc = "spawn"
    /\ disposition = Allowed
    /\ prompts = <<>>
    /\ warned = FALSE
    /\ attempts = <<>>
    /\ orphans = 0
    /\ child = NoChild
    /\ holders = [s \in Streams |-> {}]
    /\ pipe = [s \in Streams |-> <<>>]
    /\ written = [s \in Streams |-> 0]
    /\ readers = [s \in Streams |-> "none"]
    /\ senders = {}
    /\ channel = <<>>
    /\ stdout_buf = <<>>
    /\ stderr_buf = <<>>
    /\ callbacks = <<>>
    /\ ks_calls = <<>>
    /\ ks_errors = {}
    /\ deadline = "unarmed"
    /\ running_at_deadline = FALSE
    /\ timed_out = FALSE
    /\ outcome = NoOutcome

NextSpawn == \E works \in LaunchOutcomes : run_spawn(works)

SpecSpawn == InitSpawn /\ [][NextSpawn]_vars

----------------------------------------------------------------------------
(* bin/qa.rs: run_execute_command_with_allowlist, the loop that calls run   *)
(* and offers to extend the allowlist, with config.rs's allowlist.          *)

Alphabet ==
    <<"a", "b", "c", "d", "e", "f", "g", "h", "i", "j", "k", "l", "m",
      "n", "o", "p", "q", "r", "s", "t", "u", "v", "w", "x", "y", "z">>

\* The order of String: by characters, a prefix first.
RECURSIVE str_lt(_, _)
str_lt(a, b) ==
    IF b = <<>> THEN FALSE
    ELSE IF a = <<>> THEN TRUE
    ELSE IF Head(a) = Head(b) THEN str_lt(Tail(a), Tail(b))
    ELSE (CHOOSE i \in 1..Len(Alphabet) : Alphabet[i] = Head(a))
             < (CHOOSE i \in 1..Len(Alphabet) : Alphabet[i] = Head(b))

RECURSIVE sort_insert(_, _)
sort_insert(sorted, x) ==
    IF sorted = <<>> THEN <<x>>
    ELSE IF str_lt(x, Head(sorted)) THEN <<x>> \o sorted
    ELSE <<Head(sorted)>> \o sort_insert(Tail(sorted), x)

\* Vec::sort.
RECURSIVE sort(_)
sort(v) == IF v = <<>> THEN <<>> ELSE sort_insert(sort(Tail(v)), Head(v))

\* Vec::dedup: consecutive repetitions are removed.
RECURSIVE dedup(_)
dedup(v) ==
    IF Len(v) < 2 THEN v
    ELSE IF v[1] = v[2] THEN dedup(Tail(v))
    ELSE <<Head(v)>> \o dedup(Tail(v))

\* A variant that reports the insertion without pushing the command.
add_command_to_allowlist_without_push(entry, command) ==
    IF \E i \in 1..Len(entry) : entry[i] = command
    THEN [allowlist |-> entry, inserted |-> FALSE]
    ELSE [allowlist |-> dedup(sort(entry)), inserted |-> TRUE]

\* config.rs line 294: the allowlist after the call and whether the
\* command was inserted.
add_command_to_allowlist(entry, command) ==
    IF \E i \in 1..Len(entry) : entry[i] = command
    THEN [allowlist |-> entry, inserted |-> FALSE]
    ELSE [allowlist |-> dedup(sort(Append(entry, command))), inserted |-> TRUE]

\* Lines 290 to 293: the working directory of the process, canonical when
\* that is possible.
base_dir(f, current_dir) ==
    IF canonicalize(f, current_dir).ok THEN canonicalize(f, current_dir).path
    ELSE current_dir

\* Lines 397 to 432: the working directory a call gets, always the base
\* directory or a path under it.
sanitize_cwd_path(f, requested, base) ==
    IF ~requested.some \/ requested.path.comps = <<>> THEN base
    ELSE IF requested.path.abs
         THEN LET canon == canonicalize(f, requested.path.comps)
              IN  IF canon.ok /\ path_starts_with(canon.path, base)
                  THEN canon.path ELSE base
    ELSE IF \E i \in 1..Len(requested.path.comps) : requested.path.comps[i] = ".."
         THEN base
    ELSE base \o SelectSeq(requested.path.comps, LAMBDA c : c # ".")

\* Lines 369 to 395.
sanitize_execute_args(f, a, base) ==
    [command |-> a.command,
     cwd |-> SomeCwd(PathOf(TRUE, sanitize_cwd_path(f, a.cwd, base)))]

\* Lines 353 to 367: the answer to the offer, yes for y or yes.
prompt_add_command_to_allowlist(line) ==
    ToLowercase(Trim(line)) \in {<<"y">>, <<"y", "e", "s">>}

ReadFailed == RunErr("Failed to read response")
SaveFailed == RunErr("Writing config")

Offer(program, answer) == [program |-> program, answer |-> answer]

\* Lines 296 to 318: the loop calls run with the sanitized arguments.
caller_calls_run ==
    /\ caller.pc = "loop"
    /\ caller' = [caller EXCEPT !.pc = "calling", !.calls = @ + 1]
    /\ args' = sanitize_execute_args(fs, caller.original, base_dir(fs, cwd))
    /\ pc' = "start"
    /\ disposition' = NoResult
    /\ prompts' = <<>>
    /\ warned' = FALSE
    /\ attempts' = <<>>
    /\ UNCHANGED orphans
    /\ child' = NoChild
    /\ holders' = [s \in Streams |-> {}]
    /\ pipe' = [s \in Streams |-> <<>>]
    /\ written' = [s \in Streams |-> 0]
    /\ readers' = [s \in Streams |-> "none"]
    /\ senders' = {}
    /\ channel' = <<>>
    /\ stdout_buf' = <<>>
    /\ stderr_buf' = <<>>
    /\ callbacks' = <<>>
    /\ ks_calls' = <<>>
    /\ ks_errors' = {}
    /\ deadline' = "unarmed"
    /\ running_at_deadline' = FALSE
    /\ timed_out' = FALSE
    /\ outcome' = NoOutcome
    /\ UNCHANGED <<auto_yes, on_chunk, platform, classifierVars, pathVars, write_result,
                   threadVars>>

\* The loop with an offer and a retry after every error of run.
caller_handles_result_offering_on_every_error(stdin_is_tty, read_ok, line, save_ok) ==
    /\ caller.pc = "calling"
    /\ pc = "returned"
    /\ IF outcome.kind = "Ok"
       THEN /\ caller' = [caller EXCEPT !.pc = "done", !.result = outcome]
            /\ UNCHANGED <<custom, last_call>>
       ELSE /\ caller' = [caller EXCEPT !.pc = "loop",
                              !.offers = Append(@, Offer(<<>>, "yes"))]
            /\ UNCHANGED <<custom, last_call>>
    /\ UNCHANGED <<unsafe_env, cmd, result, pathVars, runVars, write_result,
                   threadVars>>

\* Lines 319 to 348: what the loop does with the result of run.
caller_handles_result(stdin_is_tty, read_ok, line, save_ok) ==
    /\ caller.pc = "calling"
    /\ pc = "returned"
    /\ IF outcome.kind = "Err" /\ outcome.error = "blocked"
          /\ outcome.cause.err = "CommandNotAllowed"
       THEN LET program == outcome.cause.program
                added == add_command_to_allowlist(caller.cfg, program)
            IN  IF ~stdin_is_tty
                THEN /\ caller' = [caller EXCEPT !.pc = "done", !.result = outcome]
                     /\ UNCHANGED <<custom, last_call>>
                ELSE IF ~read_ok
                THEN /\ caller' = [caller EXCEPT !.pc = "done", !.result = ReadFailed,
                                       !.offers = Append(@, Offer(program, "err"))]
                     /\ UNCHANGED <<custom, last_call>>
                ELSE IF ~prompt_add_command_to_allowlist(line)
                THEN /\ caller' = [caller EXCEPT !.pc = "done", !.result = outcome,
                                       !.offers = Append(@, Offer(program, "no"))]
                     /\ UNCHANGED <<custom, last_call>>
                ELSE IF added.inserted /\ ~save_ok
                THEN /\ caller' = [caller EXCEPT !.pc = "done", !.result = SaveFailed,
                                       !.cfg = added.allowlist,
                                       !.offers = Append(@, Offer(program, "yes"))]
                     /\ UNCHANGED <<custom, last_call>>
                ELSE /\ caller' = [caller EXCEPT !.pc = "loop",
                                       !.cfg = added.allowlist,
                                       !.saved = IF added.inserted
                                                 THEN added.allowlist ELSE @,
                                       !.offers = Append(@, Offer(program, "yes"))]
                     /\ custom' = insert_all({}, added.allowlist, 1)
                     /\ last_call' = SetCall(added.allowlist)
       ELSE /\ caller' = [caller EXCEPT !.pc = "done", !.result = outcome]
            /\ UNCHANGED <<custom, last_call>>
    /\ UNCHANGED <<unsafe_env, cmd, result, pathVars, runVars, write_result,
                   threadVars>>

RetryCommands ==
    {<<"l", "s">>,
     <<"e", "c", "h", "o", " ", "a", " ", ">", "f">>,
     <<"c", "u", "r", "l", " ", "x">>,
     <<"c", "u", "r", "l", " ", "x", ";", "r", "m", " ", "x">>,
     <<"r", "m", " ", "-", "r", "f", " ", "/">>,
     <<" ", " ">>,
     <<"l", "s", " ", SQ>>}

ConfigAllowlists == {<<>>, <<<<"r", "m">>>>}

InitRetry ==
    /\ PathIdle
    /\ ThreadsIdle
    /\ write_result = NoPathResult
    /\ unsafe_env = EnvUnset
    /\ cmd = <<"l", "s">>
    /\ result = NoResult
    /\ \E original \in [command : RetryCommands, cwd : CwdArgs],
          allowlist \in ConfigAllowlists :
          /\ caller = [pc |-> "loop", original |-> original, cfg |-> allowlist,
                       calls |-> 0, offers |-> <<>>, saved |-> allowlist,
                       result |-> NoOutcome]
          /\ custom = insert_all({}, allowlist, 1)
          /\ last_call = SetCall(allowlist)
    /\ args = [command |-> <<"l", "s">>, cwd |-> NoCwd]
    /\ auto_yes \in BOOLEAN
    /\ on_chunk = TRUE
    /\ platform = PosixPlatform(TRUE)
    /\ pc = "idle"
    /\ RunFresh
    /\ outcome = NoOutcome

\* The child of these calls writes nothing: the loop looks at the result of
\* run only.
NextRetry ==
    \/ caller_calls_run
    \/ \E stdin_is_tty \in BOOLEAN, read_ok \in BOOLEAN, line \in Lines,
          save_ok \in BOOLEAN :
          caller_handles_result(stdin_is_tty, read_ok, line, save_ok)
    \/ run_classify
    \/ \E terminal \in Terminals, line \in Lines : run_cwd_check(terminal, line)
    \/ \E terminal \in Terminals, line \in Lines : run_execute_check(terminal, line)
    \/ \E works \in ReaderCloned : run_spawn(works)
    \/ collect_recv
    \/ collect_end
    \/ timeout_fires
    \/ \E kill_ok \in BOOLEAN : terminate_returns(kill_ok)
    \/ \E wait_ok \in BOOLEAN : timeout_wait_returns(wait_ok)
    \/ \E wait_ok \in BOOLEAN : wait_returns(wait_ok)
    \/ \E s \in Streams : child_closes(s)
    \/ \E code \in ExitCodes : child_exits(code)
    \/ \E s \in Streams : reader_eof(s)
    \/ \E s \in Streams : reader_error(s)
    \/ deadline_passes

SpecRetry == InitRetry /\ [][NextRetry]_vars

----------------------------------------------------------------------------
(* tools/write_file.rs: run, with std's create_dir_all and write on the    *)
(* filesystem of the path guard.                                           *)

\* A file with the content the tool wrote.
Written(content) == [kind |-> "file", target |-> <<>>, content |-> content]

\* Where open(2) with O_CREAT finds or creates the file of the absolute
\* path rest looked up from the resolved directory base: symlinks are
\* followed, the last one too; the last name may be missing.
RECURSIVE open_site(_, _, _, _)
open_site(f, base, rest, hops) ==
    IF rest = <<>> THEN [ok |-> FALSE, path |-> base]
    ELSE LET q == Append(base, Head(rest))
         IN  IF q \notin DOMAIN f
             THEN [ok |-> Tail(rest) = <<>>, path |-> q]
             ELSE IF f[q].kind = "link"
                  THEN IF hops >= MaxSymlinkHops THEN [ok |-> FALSE, path |-> q]
                       ELSE open_site(f, <<>>, f[q].target \o Tail(rest), hops + 1)
             ELSE IF Tail(rest) = <<>> THEN [ok |-> f[q].kind = "file", path |-> q]
             ELSE IF f[q].kind = "file" THEN [ok |-> FALSE, path |-> q]
             ELSE open_site(f, q, Tail(rest), hops)

\* std::fs::create_dir_all: a path that is a directory is left alone,
\* otherwise the parent is created first and then the directory; a name
\* that exists and is not a directory is an error. What was created before
\* an error stays.
RECURSIVE create_dir_all(_, _)
create_dir_all(f, path) ==
    IF path = <<>> \/ is_dir(f, path) THEN [ok |-> TRUE, fs |-> f]
    ELSE LET up == create_dir_all(f, Parent(path))
             site == Append(canonicalize(up.fs, Parent(path)).path, path[Len(path)])
         IN  IF ~up.ok THEN up
             ELSE IF site \in DOMAIN up.fs THEN [ok |-> FALSE, fs |-> up.fs]
             ELSE [ok |-> TRUE, fs |-> (site :> Dir) @@ up.fs]

\* std::fs::write: the file is created or truncated and gets the content.
write(f, path, content) ==
    LET site == open_site(f, <<>>, path, 0)
    IN  IF site.ok THEN [ok |-> TRUE, fs |-> (site.path :> Written(content)) @@ f]
        ELSE [ok |-> FALSE, fs |-> f]

Wrote == "Wrote"
CreateDirFailed == "Creating parent directories"
WriteFailed == "Writing file"

\* run with the parent directories created before the path is checked.
write_file_creating_dirs_first(content) ==
    LET guard == ensure_safe_path(fs, home, cwd, path_arg)
        resolved == resolve_path(path_arg, cwd)
        dirs == create_dir_all(fs, Parent(resolved))
        done == write(dirs.fs, resolved, content)
    IN  /\ write_result = NoPathResult
        /\ path_result' = guard
        /\ IF ~dirs.ok THEN fs' = dirs.fs /\ write_result' = CreateDirFailed
           ELSE IF guard # PathOk THEN fs' = dirs.fs /\ write_result' = guard
           ELSE /\ fs' = done.fs
                /\ write_result' = IF done.ok THEN Wrote ELSE WriteFailed
        /\ UNCHANGED <<home, cwd, path_arg, classifierVars, runVars, caller, threadVars>>

\* Lines 13 to 28: the path is checked, the parent directories are created
\* and the file is written.
write_file(content) ==
    LET guard == ensure_safe_path(fs, home, cwd, path_arg)
        resolved == resolve_path(path_arg, cwd)
        dirs == create_dir_all(fs, Parent(resolved))
        done == write(dirs.fs, resolved, content)
    IN  /\ write_result = NoPathResult
        /\ path_result' = guard
        /\ IF guard # PathOk THEN fs' = fs /\ write_result' = guard
           ELSE IF ~dirs.ok THEN fs' = dirs.fs /\ write_result' = CreateDirFailed
           ELSE /\ fs' = done.fs
                /\ write_result' = IF done.ok THEN Wrote ELSE WriteFailed
        /\ UNCHANGED <<home, cwd, path_arg, classifierVars, runVars, caller, threadVars>>

Contents == {"nope", "hello"}

InitWrite ==
    /\ CallerIdle
    /\ ThreadsIdle
    /\ ClassifierIdle
    /\ RunIdle
    /\ fs = BaseFs
    /\ home = SomeHome(<<"h">>)
    /\ cwd = workspace
    /\ path_arg \in [abs : BOOLEAN, comps : ComponentSeqs(MaxPathLen)]
    /\ path_result = NoPathResult
    /\ write_result = NoPathResult

NextWrite ==
    \/ \E target \in LinkTargets, site \in LinkSites : symlink(target, site)
    \/ \E content \in Contents : write_file(content)

SpecWrite == InitWrite /\ [][NextWrite]_vars

----------------------------------------------------------------------------
(* perms.rs under threads: one thread inside ensure_safe_command, one      *)
(* calling set_custom_allowlist, the mutex of custom_allowlist() between   *)
(* them. A step is what a thread does between two operations on the mutex. *)

MaxWrites == 2

curl == <<"c", "u", "r", "l">>

\* The commands the reader classifies.
ThreadCommands ==
    {<<"r", "m", " ", "x", ";", "c", "u", "r", "l", " ", "x">>,
     <<"r", "m", " ", "x", ";", "r", "m", " ", "x">>,
     <<"l", "s", ";", "r", "m", " ", "x">>,
     <<"r", "m", " ", "x">>}

\* The arguments of the writer's calls.
ThreadAllowlists == {<<>>, <<rm>>, <<curl>>, <<rm, curl>>}

otherVars == <<unsafe_env, cmd, pathVars, runVars, caller, write_result>>

\* Every value the allowlist takes while the reader is inside its call.
noted(r, set) ==
    IF r.pc = "checking" THEN [r EXCEPT !.seen = @ \cup {set}] ELSE r

\* Line 48: set_custom_allowlist takes the lock.
writer_locks(commands) ==
    /\ writer.pc = "idle"
    /\ writer.calls < MaxWrites
    /\ mutex = "none"
    /\ mutex' = "writer"
    /\ writer' = [pc |-> "locked", commands |-> commands, k |-> 1, old |-> custom,
                  new |-> insert_all({}, commands, 1), calls |-> writer.calls + 1]
    /\ UNCHANGED <<custom, last_call, result, reader, otherVars>>

\* The clear with the lock given up after it: the inserts are made under
\* no lock.
writer_clears_and_unlocks ==
    /\ writer.pc = "locked"
    /\ custom' = {}
    /\ mutex' = "none"
    /\ writer' = [writer EXCEPT !.pc = "filling"]
    /\ reader' = noted(reader, custom')
    /\ UNCHANGED <<last_call, result, otherVars>>

\* Line 49: set.clear().
writer_clears ==
    /\ writer.pc = "locked"
    /\ custom' = {}
    /\ writer' = [writer EXCEPT !.pc = "filling"]
    /\ reader' = noted(reader, custom')
    /\ UNCHANGED <<mutex, last_call, result, otherVars>>

\* Lines 50 to 52: one insert of the loop.
writer_inserts ==
    /\ writer.pc = "filling"
    /\ writer.k <= Len(writer.commands)
    /\ custom' = custom \cup {writer.commands[writer.k]}
    /\ writer' = [writer EXCEPT !.k = @ + 1]
    /\ reader' = noted(reader, custom')
    /\ UNCHANGED <<mutex, last_call, result, otherVars>>

\* Line 53: the guard is dropped at the end of the function.
writer_unlocks ==
    /\ writer.pc = "filling"
    /\ writer.k > Len(writer.commands)
    /\ mutex' = "none"
    /\ writer' = [writer EXCEPT !.pc = "idle"]
    /\ last_call' = SetCall(writer.commands)
    /\ UNCHANGED <<custom, result, reader, otherVars>>

\* Lines 86 to 97: the bypass, the empty command, the scan and the split.
reader_starts ==
    /\ reader.pc = "idle"
    /\ result = NoResult
    /\ IF allow_unsafe_commands(unsafe_env)
       THEN result' = Allowed /\ reader' = [reader EXCEPT !.pc = "done"]
       ELSE IF Trim(cmd) = <<>>
       THEN result' = Err("Empty") /\ reader' = [reader EXCEPT !.pc = "done"]
       ELSE /\ reader' = [reader EXCEPT !.pc = "checking", !.seen = {custom}]
            /\ UNCHANGED result
    /\ UNCHANGED <<custom, last_call, mutex, writer, otherVars>>

\* Lines 98 to 121 and 280 to 282: one turn of the segment loop. The
\* lookup of is_custom_allowed takes the lock, looks the program up and
\* gives the lock back.
reader_checks_segment ==
    /\ reader.pc = "checking"
    /\ LET segments == split_command_segments(Trim(cmd))
           seg_trimmed == Trim(segments[reader.k])
           parsed == shell_words_split(seg_trimmed)
           looks_up == seg_trimmed # <<>> /\ parsed.ok /\ parsed.words # <<>>
           program == parsed.words[1]
           checked == check_segments(<<segments[reader.k]>>, 1, reader.saw, custom)
       IN  /\ reader.k <= Len(segments)
           /\ looks_up => mutex = "none"
           /\ reader' = [reader EXCEPT
                            !.pc = IF checked.r = NoResult THEN "checking" ELSE "done",
                            !.k = @ + 1,
                            !.saw = checked.saw,
                            !.lookups =
                                IF looks_up
                                THEN Append(@, [program |-> program,
                                                allowed |-> is_custom_allowed(program, custom)])
                                ELSE @]
           /\ result' = checked.r
    /\ UNCHANGED <<custom, last_call, mutex, writer, otherVars>>

\* Lines 123 to 149: after the loop.
reader_finishes ==
    /\ reader.pc = "checking"
    /\ reader.k > Len(split_command_segments(Trim(cmd)))
    /\ LET blocked == destructive_pattern(ToLowercase(cmd))
       IN  result' = IF ~reader.saw THEN Err("Empty")
                     ELSE IF blocked # "none" THEN Err(blocked)
                     ELSE IF contains_control_operators(Trim(cmd))
                         THEN NeedsConfirmation
                     ELSE Allowed
    /\ reader' = [reader EXCEPT !.pc = "done"]
    /\ UNCHANGED <<custom, last_call, mutex, writer, otherVars>>

InitThreads ==
    /\ CallerIdle
    /\ write_result = NoPathResult
    /\ PathIdle
    /\ RunIdle
    /\ \E commands \in ThreadAllowlists :
          /\ custom = insert_all({}, commands, 1)
          /\ last_call = SetCall(commands)
          /\ writer = [pc |-> "idle", commands |-> commands, k |-> 1, old |-> custom,
                       new |-> custom, calls |-> 0]
    /\ mutex = "none"
    /\ reader = [pc |-> "idle", k |-> 1, saw |-> FALSE, seen |-> {}, lookups |-> <<>>]
    /\ unsafe_env = EnvUnset
    /\ cmd \in ThreadCommands
    /\ result = NoResult

NextThreads ==
    \/ \E commands \in ThreadAllowlists : writer_locks(commands)
    \/ writer_clears
    \/ writer_inserts
    \/ writer_unlocks
    \/ reader_starts
    \/ reader_checks_segment
    \/ reader_finishes

SpecThreads == InitThreads /\ [][NextThreads]_vars

----------------------------------------------------------------------------
(* The claims about run.                                                   *)

Returned == pc = "returned"

AnsweredYes(prompt) ==
    \E i \in 1..Len(prompts) : prompts[i] = Asked(prompt, "yes")

\* The working directory of the call does not lie under the home
\* directory, stated on the filesystem the model starts from.
OutsideHome ==
    /\ home.some
    /\ LET given == IF args.cwd.some THEN args.cwd.path.comps ELSE cwd
       IN  ~IsPrefix(home.path, LeadsTo(given).path)

\* C4: a child is spawned only after the classifier returned Ok and every
\* required prompt was answered with yes; the Execute prompt is required
\* whenever the disposition is NeedsConfirmation or auto_yes is false; a
\* rejection by the classifier is returned before any prompt and any spawn.
C4_SpawnOnlyAfterApproval ==
    /\ Spawned =>
           /\ disposition \in {Allowed, NeedsConfirmation}
           /\ \A i \in 1..Len(prompts) : prompts[i].answer = "yes"
           /\ (disposition = NeedsConfirmation \/ ~auto_yes)
                  => AnsweredYes(ExecutePrompt)
           /\ (OutsideHome /\ ~auto_yes) => AnsweredYes(ProceedPrompt)
    /\ disposition.kind = "Err" =>
           /\ prompts = <<>>
           /\ ~Spawned
           /\ Returned
           /\ outcome = RunBlocked(disposition)

C4_Witness ==
    /\ Spawned
    /\ auto_yes
    /\ disposition = NeedsConfirmation
    /\ prompts = <<Asked(ExecutePrompt, "yes")>>

\* C5: when the timeout fires before the drain completes, run calls
\* KillSwitch.terminate first, then KillSwitch.wait, then returns the
\* timeout error; errors of the kill and of the wait are ignored, so the
\* result on this path is the timeout error and never a summary.
C5_TimeoutTerminatesThenWaits ==
    timed_out =>
        /\ ks_calls \in {<<"terminate">>, <<"terminate", "wait">>}
        /\ Returned => (ks_calls = <<"terminate", "wait">> /\ outcome = TimedOut)

C5_Witness ==
    /\ timed_out
    /\ Returned
    /\ ks_errors = {"kill", "wait"}
    /\ outcome = TimedOut

\* C6, for the calls in which no read fails: whatever the child does, if
\* it has not exited when the 120 s ceiling elapses after the spawn, run
\* returns the timeout error and the child is no longer running when run
\* returns; run never waits on the child without a bound, that is, it is
\* never inside the KillSwitch.wait of line 132 with the ceiling elapsed and
\* the child running.
C6_CeilingBoundsRun ==
    /\ (Returned /\ running_at_deadline /\ outcome # StreamFailed)
           => (outcome = TimedOut /\ child.status # "running")
    /\ ~(pc = "waiting" /\ deadline = "passed" /\ child.status = "running")

----------------------------------------------------------------------------
(* Claims C15 and C16: the prompts of run.                                 *)

\* The position of a prompt in the prompts issued so far, 0 when it was
\* not issued.
PromptIndex(prompt) ==
    IF \E i \in 1..Len(prompts) : prompts[i].prompt = prompt
        THEN CHOOSE i \in 1..Len(prompts) : prompts[i].prompt = prompt
        ELSE 0

PastCwdCheck == pc \notin {"idle", "start", "cwd_check"} /\ IsOk(disposition)

\* C15: when the working directory does not lie under the home directory
\* the warning is printed and, unless auto_yes is set, the Proceed prompt is
\* issued; the Proceed prompt comes before the Execute prompt; with
\* auto_yes false a child is spawned only after both prompts were answered
\* yes; with auto_yes true the Proceed prompt is never issued.
C15_CwdPromptBeforeExecutePrompt ==
    /\ (PastCwdCheck /\ OutsideHome)
           => /\ warned
              /\ ~auto_yes => PromptIndex(ProceedPrompt) = 1
    /\ PromptIndex(ExecutePrompt) # 0
           => PromptIndex(ProceedPrompt) < PromptIndex(ExecutePrompt)
    /\ (Spawned /\ OutsideHome /\ ~auto_yes)
           => prompts = <<Asked(ProceedPrompt, "yes"), Asked(ExecutePrompt, "yes")>>
    /\ auto_yes => PromptIndex(ProceedPrompt) = 0

\* C15 witness: a child was spawned in a directory outside home after the
\* warning and both prompts.
C15_Witness ==
    /\ Spawned /\ OutsideHome /\ ~auto_yes
    /\ warned
    /\ prompts = <<Asked(ProceedPrompt, "yes"), Asked(ExecutePrompt, "yes")>>

\* The answers that count as yes: y or yes in any letter case, with
\* whitespace before and after.
YesWords ==
    {<<a>> : a \in {"y", "Y"}}
        \cup {<<a, b, c>> : a \in {"y", "Y"}, b \in {"e", "E"}, c \in {"s", "S"}}

Affirmative(line) ==
    \E i \in 1..Len(line), j \in 1..Len(line) :
        /\ SubSeq(line, i, j) \in YesWords
        /\ \A k \in 1..Len(line) : (k < i \/ k > j) => line[k] \in {" ", TAB, NL}

ExecutionFailures == {SpawnFailed, StreamFailed, TimedOut, WaitFailed, PromptFailed}

Declined ==
    \E i \in 1..Len(prompts) : prompts[i].answer = "no"

\* A step of run that reads line at the prompt, on a terminal that can be
\* read.
ProceedAnswered(line) ==
    /\ pc = "cwd_check"
    /\ cwd_outside_home(fs, home, cwd, args) /\ ~auto_yes
    /\ \E terminal \in Terminals \ {"none"} : run_cwd_check(terminal, line)

ExecuteAnswered(line) ==
    /\ pc = "execute_check"
    /\ execute_prompt_required(disposition.kind = "NeedsConfirmation", auto_yes)
    /\ \E terminal \in Terminals \ {"none"} : run_execute_check(terminal, line)

\* C16: an answer to the Proceed or the Execute prompt that is not y or
\* yes, trimmed and in any letter case, the empty line of an end of input
\* included, makes run return the cancellation error of that prompt with no
\* child spawned; after a decline run has returned, no child exists, and
\* the result is none of the spawn, stream, timeout, wait and prompt
\* failures nor a rejection of the classifier.
C16_DeclineCancelsWithoutSpawn ==
    /\ [](Declined
             => /\ Returned /\ ~Spawned
                /\ outcome \in {Canceled, CanceledCwd}
                /\ outcome \notin ExecutionFailures
                /\ outcome # RunBlocked(disposition))
    /\ [][\A line \in Lines :
             /\ (ProceedAnswered(line) /\ ~Affirmative(line))
                    => (pc' = "returned" /\ outcome' = CanceledCwd /\ child' = NoChild)
             /\ (ExecuteAnswered(line) /\ ~Affirmative(line))
                    => (pc' = "returned" /\ outcome' = Canceled /\ child' = NoChild)
             /\ ((ProceedAnswered(line) \/ ExecuteAnswered(line)) /\ Affirmative(line))
                    => pc' # "returned"]_vars

\* C16 witness: the Execute prompt was declined after the Proceed prompt
\* was accepted, and run returned the cancellation with no child.
C16_Witness ==
    /\ Returned /\ ~Spawned
    /\ prompts = <<Asked(ProceedPrompt, "yes"), Asked(ExecutePrompt, "no")>>
    /\ outcome = Canceled

----------------------------------------------------------------------------
(* Claims C17 to C19: the chunks, the callback, the buffers, the summary.  *)

\* The bytes 1, 2, .. n in the order they were written.
WrittenOrder(n) == [i \in 1..n |-> i]

\* C17: for each stream the chunks the collector has received, followed by
\* the chunks still in the channel, carry the bytes of the stream in the
\* order its reader task read them, which is the order they were written
\* in, whatever the interleaving of the reader tasks; while run has not
\* returned no byte is lost or repeated on the way.
C17_PerStreamOrder ==
    \A s \in Streams :
        LET on_the_way == BytesOf(callbacks, s) \o BytesOf(channel, s)
        IN  /\ on_the_way = WrittenOrder(Len(on_the_way))
            /\ pc # "returned"
                  => on_the_way \o pipe[s] = WrittenOrder(written[s])

\* C17 witness: two chunks of stdout were received, in the order they were
\* read.
C17_Witness ==
    callbacks = <<[kind |-> "Stdout", data |-> <<1>>],
                  [kind |-> "Stdout", data |-> <<2>>]>>

\* The first position at which pat occurs in text, 0 when it does not.
IndexOf(text, pat) ==
    LET hits == {i \in 1..(Len(text) - Len(pat) + 1) :
                    SubSeq(text, i, i + Len(pat) - 1) = pat}
    IN  IF hits = {} THEN 0 ELSE CHOOSE i \in hits : \A j \in hits : i <= j

StdoutTitle == <<"-", "-", "-", " ", "s", "t", "d", "o", "u", "t", " ", "-", "-", "-", NL>>
StderrTitle == <<"-", "-", "-", " ", "s", "t", "d", "e", "r", "r", " ", "-", "-", "-", NL>>

\* The stdout section of a summary: what stands between the line
\* --- stdout --- and the line --- stderr ---.
StdoutSection(text) ==
    SubSeq(text, IndexOf(text, StdoutTitle) + Len(StdoutTitle),
           IndexOf(text, StderrTitle) - 1)

\* The UTF-8 bytes of a text of the model.
RECURSIVE Utf8(_)
Utf8(text) ==
    IF text = <<>> THEN <<>>
    ELSE (CASE Head(text) = NL -> <<10>>
            [] Head(text) = "<U+00E9>" -> <<195, 169>>
            [] Head(text) = "<U+FFFD>" -> <<239, 191, 189>>
            [] OTHER -> <<0>>) \o Utf8(Tail(text))

WithNewline(text) ==
    IF text # <<>> /\ text[Len(text)] = NL THEN text ELSE Append(text, NL)

\* A step in which the collector receives a chunk.
ChunkReceived ==
    /\ pc = "drain" /\ channel # <<>>
    /\ Head(channel).kind \in Streams
    /\ channel' = Tail(channel)

\* What C18 says of the callback and of the buffers, for a call with a
\* callback.
CallbackPerChunk ==
    /\ [](on_chunk => /\ stdout_buf = BytesOf(callbacks, "Stdout")
                       /\ stderr_buf = BytesOf(callbacks, "Stderr"))
    /\ [][on_chunk =>
             /\ ChunkReceived
                   => callbacks' = Append(callbacks, [kind |-> Head(channel).kind,
                                                       data |-> Head(channel).data])
             /\ callbacks' # callbacks => ChunkReceived]_vars

\* C18 as stated: the callback is invoked once per received chunk, in
\* arrival order and with the kind of the chunk, the buffers are the
\* concatenations of the chunks passed to it, and on success the stdout
\* section of the summary is the concatenation of the Stdout chunks, a
\* final newline apart.
C18_AsStated ==
    /\ CallbackPerChunk
    /\ []((on_chunk /\ outcome.kind = "Ok")
             => Utf8(StdoutSection(outcome.summary))
                    \in {BytesOf(callbacks, "Stdout"),
                         Append(BytesOf(callbacks, "Stdout"), 10)})

\* C18 as amended: the same of the callback and the buffers; on success
\* the stdout section of the summary is the lossy UTF-8 decoding of the
\* concatenation of the Stdout chunks, with a newline added when it does
\* not end with one.
C18_CallbackPerChunkLossySummary ==
    /\ CallbackPerChunk
    /\ []((on_chunk /\ outcome.kind = "Ok")
             => StdoutSection(outcome.summary)
                    = WithNewline(from_utf8_lossy(BytesOf(callbacks, "Stdout"))))

\* C18 witness: a call that succeeded after the callback got a character
\* of stdout in two chunks.
C18_Witness ==
    /\ on_chunk /\ outcome.kind = "Ok"
    /\ callbacks = <<[kind |-> "Stdout", data |-> <<195>>],
                     [kind |-> "Stdout", data |-> <<169>>]>>
    /\ StdoutSection(outcome.summary) = <<"<U+00E9>", NL>>

\* The exit code as run prints it.
CodeText(code) ==
    CASE code = 0 -> <<"0">>
      [] code = 1 -> <<"1">>
      [] code = 127 -> <<"1", "2", "7">>
      [] OTHER -> <<"-", "1">>

\* Exit code: {code}\n--- stdout ---\n{stdout}\n--- stderr ---\n{stderr}\n
\* with the newline after a section only when the section does not end
\* with one.
SummaryTemplate(code, stdout, stderr) ==
    <<"E", "x", "i", "t", " ", "c", "o", "d", "e", ":", " ">> \o CodeText(code) \o <<NL>>
        \o StdoutTitle \o WithNewline(stdout)
        \o StderrTitle \o WithNewline(stderr)

\* The code KillSwitch.wait reports for the child: its exit code, or -1
\* for a plain child that a signal ended.
ReportedCode == IF child.status = "exited" THEN child.code ELSE 0 - 1

----------------------------------------------------------------------------
(* Claim C20: backend selection.                                           *)

\* The values of a PTY switch that set it: 1, true or yes in any case.
SwitchOn == {EnvSet(<<"1">>), EnvSet(<<"T", "R", "U", "E">>), EnvSet(<<"Y", "e", "s">>)}

ForceSet == platform.force_pty \in SwitchOn
DisableSet == platform.disable_pty \in SwitchOn

SpawnDone == pc # "spawn" /\ attempts # <<>>

PtyAttempted == \E i \in 1..Len(attempts) : attempts[i] = "pty"

\* C20: for CmdExe and PowerShell the child is a plain piped child whatever
\* the PTY switches say; for Posix on unix a PTY child is attempted iff the
\* force switch is set or (the disable switch is not set and stdout is a
\* terminal): the force switch wins when both are set, the disable switch
\* alone yields a plain piped child. A PTY child is only ever the result of
\* a PTY attempt.
C20_BackendSelection ==
    SpawnDone =>
        /\ platform.shell \in {"CmdExe", "PowerShell"}
              => (~PtyAttempted /\ child.backend \in {"Plain", "none"})
        /\ (platform.shell = "Posix" /\ platform.unix)
              => /\ PtyAttempted <=> (ForceSet \/ (~DisableSet /\ platform.stdout_tty))
                 /\ (ForceSet /\ DisableSet) => attempts[1] = "pty"
                 /\ (DisableSet /\ ~ForceSet)
                       => (attempts = <<"sh">> /\ child.backend \in {"Plain", "none"})
        /\ child.backend = "Pty" => attempts = <<"pty">>
        /\ child.backend = "Plain" => attempts[Len(attempts)] # "pty"

\* C20 witness: Posix on unix, both switches set, stdout not a terminal:
\* the child is a PTY child.
C20_Witness ==
    /\ SpawnDone
    /\ platform.shell = "Posix" /\ platform.unix
    /\ ForceSet /\ DisableSet /\ ~platform.stdout_tty
    /\ attempts = <<"pty">>
    /\ child = Running("Pty")

----------------------------------------------------------------------------
(* Claim C21: the retry loop of the caller.                                *)

\* run returned a CommandNotAllowedError.
NotAllowedReturned ==
    outcome \in {RunBlocked(CommandNotAllowedError(program)) : program \in {curl, rm}}

\* A step in which the loop deals with the result of run.
ResultHandled == caller.pc = "calling" /\ caller'.pc # "calling"

Offered == Len(caller'.offers) > Len(caller.offers)

LastOffer == caller'.offers[Len(caller'.offers)]

ReturnedAsIs == caller'.pc = "done" /\ caller'.result = outcome

\* C21: only a CommandNotAllowedError leads to an offer and to a retry, and
\* the retry is the same call, made after the user accepted the offer for
\* the program of the error; every other error of run is returned as it
\* is, without an offer; a CommandNotAllowedError is returned as it is when
\* stdin is not a terminal (no offer is made) or the user declines. A call
\* is made once more per accepted offer.
C21_OnlyNotAllowedIsRetried ==
    /\ [][ResultHandled =>
             /\ (Offered \/ caller'.pc = "loop") => NotAllowedReturned
             /\ caller'.pc = "loop"
                   => /\ Offered
                      /\ LastOffer = Offer(outcome.cause.program, "yes")
                      /\ outcome.cause.program \in custom'
                      /\ caller'.original = caller.original
             /\ ~NotAllowedReturned => (ReturnedAsIs /\ ~Offered)
             /\ (NotAllowedReturned /\ ~Offered) => ReturnedAsIs
             /\ (NotAllowedReturned /\ Offered /\ LastOffer.answer = "no")
                   => ReturnedAsIs]_vars
    /\ [](caller.pc = "calling"
             => /\ caller.calls = 1 + Len(caller.offers)
                /\ args.command = caller.original.command
                /\ \A i \in 1..Len(caller.offers) : caller.offers[i].answer = "yes")

\* C21 witness: curl x;rm x with nothing allowlisted: the offer for curl
\* was accepted, the call was made again, the offer for rm was declined and
\* the error for rm is the result.
C21_Witness ==
    /\ caller.pc = "done"
    /\ caller.calls = 2
    /\ caller.offers = <<Offer(curl, "yes"), Offer(rm, "no")>>
    /\ caller.result = RunBlocked(CommandNotAllowedError(rm))
    /\ custom = {curl}

----------------------------------------------------------------------------
(* Claim C22: quoting and the destructive-pattern blocklist.               *)

\* Destructive commands that the blocklist rejects as written.
DestructiveCommands ==
    {<<"r", "m", " ", "-", "r", "f", " ", "/">>,
     <<"r", "m", " ", "-", "r", "f", " ", "-", "-", " ", "/">>}

\* c means to the shell what d means: after quote removal both are the
\* same words.
SameShellWords(c, d) ==
    /\ shell_words_split(c).ok
    /\ shell_words_split(c) = shell_words_split(d)

\* C22: with the bypass disabled, a command that is a destructive command
\* of the blocklist with shell quotes or backslashes added, its words
\* unchanged, is rejected like the destructive command itself, whatever the
\* custom allowlist holds.
C22_QuotingCannotBypassBlocklist ==
    (Called /\ BypassOff /\ \E d \in DestructiveCommands : SameShellWords(cmd, d))
        => result.kind = "Err"

----------------------------------------------------------------------------
(* Claim C23: what the path guard accepts.                                 *)

\* The longest prefix of path that exists; the root directory always does.
DeepestExisting(path) ==
    LET ks == {k \in 0..Len(path) : canonicalize(fs, SubSeq(path, 1, k)).ok}
    IN  SubSeq(path, 1, CHOOSE k \in ks : \A j \in ks : j <= k)

\* Some allowed root is a prefix of the path as text without being a prefix
\* of it by components: a sibling whose name begins with the name of a root.
SiblingOfRoot(path) ==
    /\ ~InsideAllowedRoot(path)
    /\ \E root \in AllowedRoots : StartsWith(PathText(path), PathText(root))

\* C23: ensure_safe_path accepts a path, existing or not, whose normalized
\* form has an allowed root as a prefix by whole components and whose
\* deepest existing ancestor canonicalizes inside an allowed root; a path
\* that has a root as a prefix of its text only, a sibling whose name begins
\* with the name of the root, is refused.
C23_ContainedPathAccepted ==
    LET resolved == LexicalNormalization(path_arg, cwd)
    IN  PathCalled =>
            /\ (/\ InsideAllowedRoot(resolved)
                /\ InsideAllowedRoot(canonicalize(fs, DeepestExisting(resolved)).path))
                  => path_result = PathOk
            /\ SiblingOfRoot(resolved) => path_result = PathRefused

\* C23 witness: nested/dir below the working directory does not exist and
\* is accepted.
C23_Witness ==
    /\ path_arg = PathOf(FALSE, <<"f", "l">>)
    /\ cwd = workspace
    /\ ~exists(fs, <<"h", "ws", "f">>)
    /\ path_result = PathOk

----------------------------------------------------------------------------
(* Claim C24: validation failures.                                         *)

CountOf(c, chars) == Cardinality({i \in 1..Len(c) : c[i] \in chars})

WhitespaceOnly(c) == \A i \in 1..Len(c) : c[i] \in {" ", TAB, NL}

\* Only operators and whitespace: no segment has anything in it.
NoNonEmptySegment(c) == \A i \in 1..Len(c) : c[i] \in {" ", TAB, NL, ";", "&", "|"}

\* One quote character in the whole command, which nothing escapes and no
\* comment holds: the quotation it opens never ends.
UnterminatedQuote(c) ==
    /\ CountOf(c, {SQ, DQ}) = 1
    /\ CountOf(c, {BS, "#"}) = 0

\* C24: with the bypass disabled an empty or whitespace-only command, a
\* command of operators and whitespace only, and a command with an
\* unterminated quote are answered with an error, never with Ok.
C24_ValidationFailuresAreErrors ==
    (Called /\ BypassOff
        /\ (WhitespaceOnly(cmd) \/ NoNonEmptySegment(cmd) \/ UnterminatedQuote(cmd)))
        => result.kind = "Err"

\* C24 witness: echo <sq>a;ls is one segment that does not tokenize; the
\* semicolon after the quote is not seen.
C24_Witness ==
    /\ Called /\ BypassOff
    /\ cmd = <<"e", "c", "h", "o", " ", SQ, "a", ";", "l", "s">>
    /\ result = Err("Parse")

----------------------------------------------------------------------------
(* Claim C25: write_file and the path guard.                               *)

\* A step in which write_file runs.
WriteFileCalled == write_result = NoPathResult /\ write_result' # NoPathResult

\* C25: when ensure_safe_path fails, write_file returns its error and the
\* filesystem is what it was: no directory is created, no file is written
\* or changed; write_file writes only to a path the guard accepted.
C25_NoMutationWhenGuardFails ==
    /\ [][(WriteFileCalled /\ path_result' # PathOk)
             => (fs' = fs /\ write_result' = path_result')]_vars
    /\ [][(WriteFileCalled /\ fs' # fs) => path_result' = PathOk]_vars

\* C25 witness: the test's symlink escape: l is a link to /etc, the write to
\* l/f is refused and /etc/f is the file it was.
C25_Witness ==
    /\ write_result = PathRefused
    /\ path_arg = PathOf(FALSE, <<"l", "f">>)
    /\ fs = (<<"h", "ws", "l">> :> Link(<<"etc">>)) @@ BaseFs

\* The reader tasks that have not ended.
ReadersAlive == {s \in Streams : readers[s] = "reading"}

\* The drain has observed the final None: run has called wait and never
\* terminate.
DrainEnded == ks_calls = <<"wait">>

\* C26: once setup_stream_tasks has returned and run has dropped its own
\* sender, the live senders are exactly those of the reader tasks still
\* running, two at the start for a Plain child and one for a Pty child;
\* the drain observes the final None only when every reader task has
\* ended, it can observe it whenever they all have and the channel is
\* empty, and after it neither the callback nor the buffers get a chunk.
C26_SendersAreReaderTasks ==
    /\ [](Spawned => SendersAlive = ReadersAlive)
    /\ [][(pc = "spawn" /\ pc' = "drain")
             => Cardinality(SendersAlive') =
                    IF child'.backend = "Plain" THEN 2 ELSE 1]_vars
    /\ [][(pc = "drain" /\ pc' = "waiting") => ReadersAlive = {}]_vars
    /\ []((pc = "drain" /\ channel = <<>> /\ ReadersAlive = {})
             => ENABLED collect_end)
    /\ [][DrainEnded
             => UNCHANGED <<callbacks, stdout_buf, stderr_buf>>]_vars

\* C26 witness: the drain of a Plain child has ended after both reader
\* tasks delivered a chunk and ended, while the child is still running.
C26_Witness ==
    /\ DrainEnded
    /\ child.backend = "Plain"
    /\ child.status = "running"
    /\ stdout_buf # <<>>
    /\ stderr_buf # <<>>
    /\ ReadersAlive = {}

\* The number of messages of one kind in a channel.
CountKind(ch, kind) == Cardinality({i \in 1..Len(ch) : ch[i].kind = kind})

\* The step in which the drain takes an Error message off the channel.
ErrorReceived ==
    /\ pc = "drain"
    /\ channel # <<>>
    /\ Head(channel).kind = "Error"
    /\ Len(channel') < Len(channel)

\* C27: every Error message is sent by a reader task that ends in the
\* same step, one message at a time, and a reader task that has ended
\* sends nothing; when the drain receives an Error, run returns the stream
\* error in that step without calling the callback, and nothing is
\* delivered afterwards, whatever the other stream still holds.
C27_ReadErrorEndsRun ==
    /\ [][CountKind(channel', "Error") > CountKind(channel, "Error")
             => \E s \in Streams :
                    /\ readers[s] = "reading"
                    /\ readers'[s] = "done"
                    /\ channel' = Append(channel, [kind |-> "Error", data |-> <<>>])]_vars
    /\ [][\A s \in Streams :
               readers[s] = "done"
                   => CountKind(channel', s) <= CountKind(channel, s)]_vars
    /\ [][ErrorReceived
             => /\ pc' = "returned"
                /\ outcome' = StreamFailed
                /\ UNCHANGED <<callbacks, stdout_buf, stderr_buf>>]_vars
    /\ [][outcome = StreamFailed
             => UNCHANGED <<callbacks, stdout_buf, stderr_buf, outcome, pc>>]_vars

\* C27 witness: run has returned the stream error after one chunk went to
\* the callback, while the reader of the other stream is still running
\* with bytes left to read.
C27_Witness ==
    /\ outcome = StreamFailed
    /\ callbacks # <<>>
    /\ readers["Stdout"] = "done"
    /\ readers["Stderr"] = "reading"
    /\ pipe["Stderr"] # <<>>

\* C28: whenever run has returned after spawning a child, the child is no
\* longer running, for the Plain and the Pty backend alike.
C28_NoChildLeftRunning ==
    (Returned /\ Spawned) => child.status # "running"

\* C29: every spawned child, Plain or Pty, has no stdin, an explicit
\* working directory and is killed when its handle is dropped.
C29_EveryChildConfigured ==
    Spawned => configuration(child.backend) = configure_stdio

\* C30: the calls made on the KillSwitch are always a beginning of wait
\* alone or of terminate followed by wait, and when run has returned
\* after spawning a child they are one of these two sequences in full.
C30_KillSwitchSequences ==
    /\ ks_calls \in {<<>>, <<"wait">>, <<"terminate">>, <<"terminate", "wait">>}
    /\ (Returned /\ Spawned)
          => ks_calls \in {<<"wait">>, <<"terminate", "wait">>}

\* C31: for a Posix target, a PTY attempt that does not end with a PTY
\* child is followed by the plain launch of sh; the spawn error is
\* returned only after that plain launch, with no child handed over, and
\* otherwise exactly one child, PTY or plain, is handed to the supervisor.
C31_PtyFailureFallsBack ==
    (SpawnDone /\ platform.shell = "Posix") =>
        /\ (PtyAttempted /\ child.backend # "Pty") => attempts = <<"pty", "sh">>
        /\ outcome = SpawnFailed
              => (attempts[Len(attempts)] = "sh" /\ child = NoChild)
        /\ outcome # SpawnFailed
              => (child.backend \in {"Pty", "Plain"} /\ child.status = "running")

\* C31 witness: the PTY child was spawned, the clone of the reader failed,
\* and the supervisor got a plain child of sh.
C31_Witness ==
    /\ platform.shell = "Posix"
    /\ attempts = <<"pty", "sh">>
    /\ orphans = 1
    /\ child = Running("Plain")
    /\ pc = "drain"

\* The call needs no prompt: auto_yes is set, the command is plain
\* Allowed and the working directory is not outside the home directory.
NoPromptRequired ==
    /\ auto_yes
    /\ disposition = Allowed
    /\ ~cwd_outside_home(fs, home, cwd, args)

\* C32: a prompt that finds no terminal to read is the last thing the call
\* does: run has returned the error of the prompt and no launch was tried;
\* a call that needs no prompt issues none and, once returned, has tried
\* to launch the command.
C32_NoTerminalIsFatalOnlyWhenPrompting ==
    /\ \A i \in 1..Len(prompts) :
           prompts[i].answer = "err"
               => /\ i = Len(prompts)
                  /\ Returned
                  /\ outcome = PromptFailed
                  /\ child = NoChild
                  /\ attempts = <<>>
    /\ NoPromptRequired
          => /\ prompts = <<>>
             /\ outcome # PromptFailed
             /\ Returned => attempts # <<>>

\* C32 witness: auto_yes is off, the command is plain Allowed, and the
\* execution prompt found no terminal: run returned the error with no
\* launch tried.
C32_Witness ==
    /\ ~auto_yes
    /\ disposition = Allowed
    /\ prompts = <<Asked(ExecutePrompt, "err")>>
    /\ outcome = PromptFailed
    /\ attempts = <<>>

\* The errors of the destructive-pattern blocklist.
DestructivePatternErrors == {Err("RmRf"), Err("Sudo"), Err("DiskWipe")}

\* C33: a command that matches a destructive pattern is rejected with the
\* error of the blocklist whatever its programs are: the classifier never
\* answers it with CommandNotAllowedError and the retry loop never offers
\* to allowlist a program for it.
C33_DestructiveIsNeverRecoverable ==
    MatchesDestructive(caller.original.command)
        => /\ disposition = NoResult \/ disposition \in DestructivePatternErrors
           /\ caller.offers = <<>>

\* The scan sets the flag at character c when its flags are st.
FlagsAt(c, st) ==
    /\ c \in OperatorChars \cup {NL}
    /\ ~st.in_single /\ ~st.in_double /\ ~st.escape_next

IsSubstitutionAt(s, i) ==
    /\ QuoteTags(s)[i] \in {"plain", "double"}
    /\ \/ s[i] = BT
       \/ s[i] = "$" /\ i < Len(s) /\ s[i + 1] = "("

HasSubstitution(s) == \E i \in 1..Len(s) : IsSubstitutionAt(s, i)

\* C35: with the bypass disabled, a command with a backtick or a $( that
\* is outside single quotes and not backslash-escaped, inside double
\* quotes included, is never classified Allowed.
C35_SubstitutionNeverAllowed ==
    (Called /\ BypassOff /\ HasSubstitution(Trim(cmd))) => result # Allowed

\* C36: whatever set_custom_allowlist calls run beside one
\* ensure_safe_command call, its verdict is the verdict of the command
\* under one of the values the allowlist had during the call.
C36_VerdictOfOneSnapshot ==
    reader.pc = "done"
        => \E snapshot \in reader.seen \cup {custom} :
               result = ensure_safe_command(cmd, snapshot, unsafe_env)

\* A step in which the reader looks a program up.
LookedUp == Len(reader'.lookups) > Len(reader.lookups)

LastLookup == reader'.lookups[Len(reader'.lookups)]

\* C37: every lookup of is_custom_allowed sees the complete set of before
\* the writer's latest call or the complete set of after it: the lock is
\* free only with the allowlist equal to the set the latest call was
\* given, and a program that is in the old and in the new set is reported
\* allowed by every lookup.
C37_ReplacementIsAtomic ==
    /\ [](mutex = "none" => (writer.pc = "idle" /\ custom = writer.new))
    /\ [][LookedUp
             => /\ custom \in {writer.old, writer.new}
                /\ LastLookup.allowed = (LastLookup.program \in custom)
                /\ LastLookup.program \in (writer.old \cap writer.new)
                      => LastLookup.allowed]_vars

\* C37 witness: the writer replaced the allowlist while the reader was
\* inside its call, rm is in the list of before and of after the writer's
\* second call, and both lookups of the reader found rm allowed.
C37_Witness ==
    /\ writer.calls = 2
    /\ rm \in (writer.old \cap writer.new)
    /\ Len(reader.lookups) = 2
    /\ \A i \in 1..2 : reader.lookups[i] = [program |-> rm, allowed |-> TRUE]
    /\ Cardinality(reader.seen) >= 3

\* The programs of the segments of c, as ensure_safe_command finds them.
ProgramsOf(c) ==
    LET segments == split_command_segments(Trim(c))
        words(k) == shell_words_split(Trim(segments[k])).words
    IN  {words(k)[1] : k \in {j \in 1..Len(segments) : words(j) # <<>>}}

\* The commands listed in a configuration's allowlist.
Listed(entry) == {entry[i] : i \in 1..Len(entry)}

\* The programs the user accepted to allowlist in this loop.
Accepted == {caller.offers[i].program :
                 i \in {j \in 1..Len(caller.offers) : caller.offers[j].answer = "yes"}}

\* The programs of the command that were on no allowlist when the loop
\* started.
NotAllowlistedAtStart ==
    ProgramsOf(caller.original.command) \ (SAFE_COMMANDS \cup (custom \ Accepted))

\* C38: an accepted program is in the process-wide allowlist before the
\* call is made again, so no two offers of a loop are for the same program
\* and every offer is for a program of the command that was on no
\* allowlist; with k such programs run is called at most k + 1 times; the
\* configuration is saved only in a step that newly inserted the program.
C38_RetryLoopTerminates ==
    /\ [](\A i, j \in 1..Len(caller.offers) :
              i # j => caller.offers[i].program # caller.offers[j].program)
    /\ [](caller.pc \in {"loop", "calling"} => Accepted \subseteq custom)
    /\ [](caller.calls <= 1 + Cardinality(NotAllowlistedAtStart))
    /\ [][caller'.saved # caller.saved
             => /\ outcome.cause.program \notin Listed(caller.cfg)
                /\ caller'.saved = caller'.cfg
                /\ outcome.cause.program \in Listed(caller'.saved)]_vars

\* C38 witness: curl x;rm x with nothing allowlisted: both offers were
\* accepted, both programs were saved, and the third call ran the command.
C38_Witness ==
    /\ caller.pc = "done"
    /\ caller.calls = 3
    /\ caller.result.kind = "Ok"
    /\ caller.saved = <<curl, rm>>
    /\ custom = {curl, rm}

\* The splitter is outside quotes and has no pending escape after text t.
EndsNeutral(t) ==
    LET st == split_states(t \o <<"x">>, 1, FALSE, FALSE, FALSE)[Len(t) + 1]
    IN  ~st.in_single /\ ~st.in_double /\ ~st.escape_next

\* t is a segment: the splitter leaves it whole and ends it outside quotes.
IsSegment(t) == split_command_segments(t) = <<t>> /\ EndsNeutral(t)

\* The segments of command c as ensure_safe_command looks at them.
TrimmedSegments(c) ==
    LET segments == split_command_segments(Trim(c))
    IN  [k \in 1..Len(segments) |-> Trim(segments[k])]

\* C39: for segments A and B and each of the operators & | ; the command
\* with the operator written once and the command with it written twice
\* are both split into the two segments A and B, and ensure_safe_command
\* gives both the same verdict, which is the verdict found for cmd.
C39_DoubledOperatorSplitsAlike ==
    Called =>
        \A A \in Operands, B \in Operands, op \in Operators, sp \in Spacings :
            LET single == Operation(A, op, 1, B, sp)
                doubled == Operation(A, op, 2, B, sp)
            IN  (cmd \in {single, doubled} /\ IsSegment(A \o sp) /\ IsSegment(sp \o B))
                    => /\ TrimmedSegments(single) = <<Trim(A), Trim(B)>>
                       /\ TrimmedSegments(doubled) = <<Trim(A), Trim(B)>>
                       /\ ensure_safe_command(single, custom, unsafe_env) = result
                       /\ ensure_safe_command(doubled, custom, unsafe_env) = result

\* C39 witness: rm x && curl x was classified with rm allowlisted and the
\* verdict is that curl is not allowed, as for rm x & curl x.
C39_Witness ==
    /\ cmd = Operation(<<"r", "m", " ", "x">>, "&", 2, curl \o <<" ", "x">>, <<" ">>)
    /\ custom = {rm}
    /\ BypassOff
    /\ result = ensure_safe_command(
                     Operation(<<"r", "m", " ", "x">>, "&", 1, curl \o <<" ", "x">>, <<" ">>),
                     custom, unsafe_env)
    /\ result = CommandNotAllowedError(curl)

\* The path was inside the working directory the process started in, lies
\* under none of the roots of the present home and cwd, and the cwd has
\* moved.
UnderFormerCwdOnly ==
    /\ cwd # workspace
    /\ IsPrefix(workspace, LexicalNormalization(path_arg, workspace))
    /\ ~InsideAllowedRoot(LexicalNormalization(path_arg, cwd))

\* C40: every verdict of ensure_safe_path is the one computed from the
\* filesystem, the home and the cwd of the moment of the call; an accepted
\* path, a relative one joined to the present cwd, lies under a root of the
\* present home and cwd; a path that lies only under a former cwd is
\* rejected.
C40_RootsRecomputedEveryCall ==
    PathCalled =>
        /\ path_result = ensure_safe_path(fs, home, cwd, path_arg)
        /\ path_result = PathOk
               => InsideAllowedRoot(LexicalNormalization(path_arg, cwd))
        /\ UnderFormerCwdOnly => path_result = PathRefused

\* C40 witness: /h/ws/f, which the call accepts while the cwd is /h/ws, was
\* rejected after the cwd had moved to /etc with no home directory set.
C40_Witness ==
    /\ path_arg = PathOf(TRUE, <<"h", "ws", "f">>)
    /\ home = NoHome
    /\ cwd = <<"etc">>
    /\ UnderFormerCwdOnly
    /\ ensure_safe_path(fs, home, workspace, path_arg) = PathOk
    /\ path_result = PathRefused

====
